---- MODULE Spec2Model ----
(***************************************************************************)
(* Ledger-consistency model of the easysale real-estate tokenization       *)
(* backend: accounts, offerings, positions, marketplace listings, DAO      *)
(* proposals and rent claims, as kept by app/services.py,                  *)
(* app/marketplace_services.py and app/dao_services.py.                    *)
(*                                                                         *)
(* Every service function is a pure operator over a ledger record          *)
(* (the rows an AsyncSession has loaded) that returns the ledger the       *)
(* session would flush, an HTTP status and a response body.                *)
(*   Spec      runs each request atomically (one request at a time).       *)
(*   SpecConc  runs requests as sessions: a session loads its rows, and    *)
(*             later commits what it computed from them (the ORM writes    *)
(*             absolute column values; no row is locked or versioned).     *)
(*   SpecChain runs invest and buy in two steps, the commit and the gateway *)
(*             call (mint, transfer) that follows it.                      *)
(*   SpecTrade runs the marketplace with several listings and accounts.    *)
(*   SpecDao   runs governance with voting windows and a running clock,    *)
(*             SpecConcVote with cast_vote requests in flight at once.     *)
(*   SpecTally runs proposals and votes on an offering of TallyTokens      *)
(*             tokens; the quorum test is computed in binary64 floats.     *)
(*   SpecRenting runs governance and rent with several proposals per       *)
(*             offering, SpecVoteTrade votes together with the marketplace. *)
(*   SpecWallet runs user creation and invest as sessions that assign the  *)
(*             wallet credentials (ensure_user_wallet).                    *)
(*                                                                         *)
(* Money (Float columns) is kept exactly, as an integer number of          *)
(* 1/CashScale USD; the input prices are chosen so that the 2.5% fee and   *)
(* the pro-rata rent shares are whole numbers of that unit.                *)
(***************************************************************************)
EXTENDS Integers, Sequences, FiniteSets, Bags, TLC

\* ---------------------------------------------------------------- bounds
\* rows per table, Spec (every operation, one request at a time)
MaxUsers == 2
MaxProps == 1
MaxTokens == 2
MaxInvestments == 2
MaxListings == 1
MaxPurchases == 1
MaxProposals == 1
MaxVotes == 1
MaxClaims == 2
\* the last month of the clock
MaxNow == 1
\* requests in flight at once, SpecConc and SpecConcRent
MaxSessions == 2
\* rows per table where SpecConc (the marketplace under concurrency) differs
MaxConcUsers == 3
MaxConcPurchases == 2
\* rows of marketplace_listings in SpecConcListing
MaxConcListings == 2
MaxDaoVotes == 2
MaxDaoNow == 2
TallyTokens == 100
MaxTradeUsers == 3
MaxTradeListings == 2
\* rows of dao_proposals in SpecRenting
MaxRentProposals == 2
\* the key pairs generate_new_wallet can return in SpecWallet
MaxWallets == 3
\* the month and year of clock value 0
EpochYear == 2025
EpochMonth == 12

\* ------------------------------------------------------ program constants
INITIAL_USER_BALANCE_USD == 10000
\* PLATFORM_FEE_PERCENT = 2.5, written in tenths of a percent
PLATFORM_FEE_PERCENT_X10 == 25

\* money unit: 1 USD = CashScale units (40 makes the 2.5% fee of a whole
\* price exact, 3 makes thirds of a rent exact)
CashScale == 40 * 3
Usd(n) == n * CashScale

None == -1

VARIABLES
    users,        \* Seq of User rows            (id = index)
    properties,   \* Seq of Property rows        (id = index)
    balances,     \* UserPropertyBalance rows: <<user_id, property_id>> -> tokens
    investments,  \* Seq of Investment rows
    listings,     \* Seq of MarketplaceListing rows (id = index)
    purchases,    \* Seq of MarketplacePurchase rows
    proposals,    \* Seq of DaoProposal rows     (id = index)
    votes,        \* Seq of DaoVote rows
    rent_claims,  \* Seq of RentClaim rows
    now,          \* datetime.utcnow(), counted in calendar months since the epoch
    sessions,     \* the requests in flight: the rows each has loaded (SpecConc*)
    chain         \* the post-commit gateway call in flight and the calls made (SpecChain)

ledgerVars == <<users, properties, balances, investments, listings, purchases,
                proposals, votes, rent_claims>>
vars == <<users, properties, balances, investments, listings, purchases,
          proposals, votes, rent_claims, now, sessions, chain>>

\* the committed database as one value
Ledger ==
    [users |-> users, properties |-> properties, balances |-> balances,
     investments |-> investments, listings |-> listings, purchases |-> purchases,
     proposals |-> proposals, votes |-> votes, rent_claims |-> rent_claims]

\* ------------------------------------------------------------ input sets
PropIds == 1..MaxProps
PriceInputs == {-1, 0, MaxTokens}
TokenInputs == -1..MaxTokens
StatusInputs == {"offering", "funded"}
\* asking prices per token, in money units (0, 1 USD, 10000 USD)
AskInputs == {0, Usd(1), Usd(INITIAL_USER_BALANCE_USD)}
ProposalTypes == {"rent_decision", "general"}
\* options_json: the option strings are rents in USD ("6" is written 6)
OptionInputs == {<<6>>, <<0, 6>>}
QuorumInputs == {10}
\* <<start_at, end_at>> of a proposal
WindowInputs == {<<None, None>>, <<1, 2>>, <<1, 0>>}
OptionIndexInputs == 0..2

\* ------------------------------------------------------------- responses
Result(L, status, body) == [db |-> L, status |-> status, body |-> body]
HTTPException(L, status) == Result(L, status, <<>>)
Ok(r) == r.status \in {200, 201}

\* ------------------------------------------------------ generic helpers
Put(f, k, v) == [x \in DOMAIN f \cup {k} |-> IF x = k THEN v ELSE f[x]]

\* =========================================================== services.py

validate_positive_number(value) == ~(value < 0)

create_user(L) ==
    Result([L EXCEPT !.users = Append(@, [mock_balance_usd |-> Usd(INITIAL_USER_BALANCE_USD)])],
           201, [created |-> "user"])

get_user(L, user_id) == user_id \in DOMAIN L.users
get_property(L, property_id) == property_id \in DOMAIN L.properties

create_property(L, price_usd) ==
    IF ~validate_positive_number(price_usd) THEN HTTPException(L, 400)
    ELSE Result([L EXCEPT !.properties = Append(@,
                    [price_usd |-> price_usd, total_tokens |-> price_usd,
                     tokens_sold |-> 0, status |-> "offering"])],
                201, [created |-> "property"])

\* PropertyUpdate carries name, description, location, yield, status and
\* image_url; status is the only one of them the ledger model keeps
update_property(L, property_id, status) ==
    IF ~get_property(L, property_id) THEN HTTPException(L, 404)
    ELSE Result([L EXCEPT !.properties[property_id].status = status], 200, [id |-> property_id])

\* the availability check without the tokens already sold
tokens_available_unsold_ignored(property_obj) == property_obj.total_tokens

tokens_available(property_obj) == property_obj.total_tokens - property_obj.tokens_sold

\* a cost that takes the offering's price for the token price
cost_usd_doubled(tokens) == Usd(tokens) * 2

\* cost_usd = float(tokens): 1 token = 1 USD
cost_usd(tokens) == Usd(tokens)

\* the balance check left out
InsufficientBalance_unchecked(mock_balance_usd, cost) == FALSE

\* if user.mock_balance_usd < cost_usd
InsufficientBalance(mock_balance_usd, cost) == mock_balance_usd < cost

FullyFunded(property_obj) == property_obj.tokens_sold >= property_obj.total_tokens

\* an upsert that sets the row's tokens instead of adding to them
CreditTokens_overwrite(bal, user_id, property_id, tokens) ==
    Put(bal, <<user_id, property_id>>, tokens)

\* the upsert of a UserPropertyBalance row
CreditTokens(bal, user_id, property_id, tokens) ==
    IF <<user_id, property_id>> \in DOMAIN bal
    THEN [bal EXCEPT ![<<user_id, property_id>>] = @ + tokens]
    ELSE Put(bal, <<user_id, property_id>>, tokens)

invest_in_property(L, user_id, property_id, tokens) ==
    IF ~validate_positive_number(tokens) THEN HTTPException(L, 400)
    ELSE IF ~get_user(L, user_id) THEN HTTPException(L, 404)
    ELSE IF ~get_property(L, property_id) THEN HTTPException(L, 404)
    ELSE LET user == L.users[user_id]
             property_obj == L.properties[property_id]
             cost == cost_usd(tokens)
         IN IF property_obj.status # "offering" THEN HTTPException(L, 400)
            ELSE IF tokens > tokens_available(property_obj) THEN HTTPException(L, 400)
            ELSE IF InsufficientBalance(user.mock_balance_usd, cost) THEN HTTPException(L, 400)
            ELSE LET sold == [property_obj EXCEPT !.tokens_sold = @ + tokens]
                     investment == [user_id |-> user_id, property_id |-> property_id,
                                    tokens |-> tokens, invested_usd |-> cost]
                 IN Result(
                      [L EXCEPT
                         !.users[user_id].mock_balance_usd = @ - cost,
                         !.properties[property_id] =
                             IF FullyFunded(sold) THEN [sold EXCEPT !.status = "funded"] ELSE sold,
                         !.investments = Append(@, investment),
                         !.balances = CreditTokens(@, user_id, property_id, tokens)],
                      201, investment)

\* ================================================ marketplace_services.py

\* the fee with the percentage taken for a fraction of 10
platform_fee_tenfold(total_price) == (total_price * PLATFORM_FEE_PERCENT_X10) \div 100

\* platform_fee = total_price * (PLATFORM_FEE_PERCENT / 100)
platform_fee(total_price) == (total_price * PLATFORM_FEE_PERCENT_X10) \div 1000

\* the buyer's balance check left out
BuyerCannotAfford_unchecked(mock_balance_usd, total_price) == FALSE

\* if buyer.mock_balance_usd < total_price
BuyerCannotAfford(mock_balance_usd, total_price) == mock_balance_usd < total_price

\* the balance check that only looks for the row
HasTokens_row_only(bal, user_id, property_id, tokens) ==
    <<user_id, property_id>> \in DOMAIN bal

HasTokens(bal, user_id, property_id, tokens) ==
    /\ <<user_id, property_id>> \in DOMAIN bal
    /\ ~(bal[<<user_id, property_id>>] < tokens)

create_marketplace_listing(L, seller_id, property_id, tokens, price_per_token_usd) ==
    IF tokens <= 0 THEN HTTPException(L, 400)
    ELSE IF price_per_token_usd <= 0 THEN HTTPException(L, 400)
    ELSE IF ~get_user(L, seller_id) THEN HTTPException(L, 404)
    ELSE IF ~get_property(L, property_id) THEN HTTPException(L, 404)
    ELSE IF ~HasTokens(L.balances, seller_id, property_id, tokens) THEN HTTPException(L, 400)
    ELSE LET listing == [seller_id |-> seller_id, property_id |-> property_id,
                         tokens_listed |-> tokens, tokens_remaining |-> tokens,
                         price_per_token_usd |-> price_per_token_usd,
                         status |-> "active"]
         IN Result([L EXCEPT !.balances[<<seller_id, property_id>>] = @ - tokens,
                             !.listings = Append(@, listing)],
                   201, [created |-> "listing"])

get_marketplace_listing(L, listing_id) == listing_id \in DOMAIN L.listings

\* the self-purchase check left out
SelfPurchase_allowed(buyer_id, listing) == FALSE

\* if purchase_create.buyer_id == listing.seller_id
SelfPurchase(buyer_id, listing) == buyer_id = listing.seller_id

\* the transfer that also takes the tokens from the seller's balance
TransferTokens_seller_debited(bal, seller_id, buyer_id, property_id, tokens) ==
    LET credited == CreditTokens(bal, buyer_id, property_id, tokens)
    IN [credited EXCEPT ![<<seller_id, property_id>>] = @ - tokens]

\* Transfer tokens to buyer: the seller's tokens left the balance at listing
TransferTokens(bal, seller_id, buyer_id, property_id, tokens) ==
    CreditTokens(bal, buyer_id, property_id, tokens)

purchase_from_marketplace(L, buyer_id, listing_id, tokens) ==
    IF tokens <= 0 THEN HTTPException(L, 400)
    ELSE IF ~get_marketplace_listing(L, listing_id) THEN HTTPException(L, 404)
    ELSE LET listing == L.listings[listing_id] IN
         IF listing.status # "active" THEN HTTPException(L, 400)
         ELSE IF tokens > listing.tokens_remaining THEN HTTPException(L, 400)
         ELSE IF SelfPurchase(buyer_id, listing) THEN HTTPException(L, 400)
         ELSE IF ~get_user(L, buyer_id) THEN HTTPException(L, 404)
         ELSE IF ~get_user(L, listing.seller_id) THEN HTTPException(L, 404)
         ELSE LET total_price == tokens * listing.price_per_token_usd
                  fee == platform_fee(total_price)
                  seller_receives == total_price - fee
                  remaining == listing.tokens_remaining - tokens
                  purchase == [listing_id |-> listing_id, buyer_id |-> buyer_id,
                               seller_id |-> listing.seller_id,
                               property_id |-> listing.property_id,
                               tokens_purchased |-> tokens,
                               price_per_token_usd |-> listing.price_per_token_usd,
                               total_price_usd |-> total_price,
                               platform_fee_usd |-> fee,
                               seller_received_usd |-> seller_receives]
              IN IF BuyerCannotAfford(L.users[buyer_id].mock_balance_usd, total_price)
                 THEN HTTPException(L, 400)
                 ELSE Result(
                        [L EXCEPT
                           !.users[buyer_id].mock_balance_usd = @ - total_price,
                           !.users[listing.seller_id].mock_balance_usd = @ + seller_receives,
                           !.balances = TransferTokens(@, listing.seller_id, buyer_id,
                                                       listing.property_id, tokens),
                           !.listings[listing_id] =
                               [listing EXCEPT
                                  !.tokens_remaining = remaining,
                                  !.status = IF remaining = 0 THEN "completed" ELSE @],
                           !.purchases = Append(@, purchase)],
                        200, purchase)

\* the cancel that returns everything that was listed
tokens_returned_listed(listing) == listing.tokens_listed

\* Return remaining tokens to seller
tokens_returned(listing) == listing.tokens_remaining

cancel_marketplace_listing(L, listing_id, user_id) ==
    IF ~get_marketplace_listing(L, listing_id) THEN HTTPException(L, 404)
    ELSE LET listing == L.listings[listing_id] IN
         IF listing.seller_id # user_id THEN HTTPException(L, 403)
         ELSE IF listing.status # "active" THEN HTTPException(L, 400)
         ELSE Result(
                [L EXCEPT
                   !.balances = CreditTokens(@, listing.seller_id, listing.property_id,
                                             tokens_returned(listing)),
                   !.listings[listing_id].status = "cancelled"],
                200, [id |-> listing_id])

\* ========================================================= dao_services.py

\* now.month and now.year of the clock value t
MonthOf(t) == ((EpochMonth - 1 + t) % 12) + 1
YearOf(t) == EpochYear + ((EpochMonth - 1 + t) \div 12)

\* the holder check that only looks for the row
HoldsTokens_row_only(bal, user_id, property_id) == <<user_id, property_id>> \in DOMAIN bal

\* if not balance or balance.tokens <= 0
HoldsTokens(bal, user_id, property_id) ==
    /\ <<user_id, property_id>> \in DOMAIN bal
    /\ ~(bal[<<user_id, property_id>>] <= 0)

\* the funding check left out
NotFullyFunded_unchecked(property_obj) == FALSE

\* if property_obj.tokens_sold < property_obj.total_tokens
NotFullyFunded(property_obj) == property_obj.tokens_sold < property_obj.total_tokens

\* every new proposal opened for voting at once
InitialStatus_always_active(t, start_at, end_at) == "active"

\* the status a new proposal gets from its voting window
InitialStatus(t, start_at, end_at) ==
    IF start_at # None /\ end_at # None
    THEN IF t < start_at THEN "draft"
         ELSE IF start_at <= t /\ t < end_at THEN "active"
         ELSE "closed"
    ELSE "active"

create_dao_proposal(L, t, property_id, created_by_user_id, proposal_type, options, min_quorum_percent, start_at, end_at) ==
    IF ~get_property(L, property_id) THEN HTTPException(L, 404)
    ELSE IF ~get_user(L, created_by_user_id) THEN HTTPException(L, 404)
    ELSE IF ~HoldsTokens(L.balances, created_by_user_id, property_id) THEN HTTPException(L, 403)
    ELSE IF Len(options) < 2 THEN HTTPException(L, 400)
    ELSE IF NotFullyFunded(L.properties[property_id]) THEN HTTPException(L, 400)
    ELSE IF start_at # None /\ end_at # None /\ start_at >= end_at THEN HTTPException(L, 400)
    ELSE Result([L EXCEPT !.proposals = Append(@,
                    [property_id |-> property_id, proposal_type |-> proposal_type,
                     options_json |-> options, min_quorum_percent |-> min_quorum_percent,
                     status |-> InitialStatus(t, start_at, end_at),
                     start_at |-> start_at, end_at |-> end_at,
                     created_by_user_id |-> created_by_user_id])],
                201, [created |-> "proposal"])

get_proposal(L, proposal_id) == proposal_id \in DOMAIN L.proposals

\* the DaoVote rows of (proposal_id, user_id)
VotesOf(L, proposal_id, user_id) ==
    {i \in DOMAIN L.votes : L.votes[i].proposal_id = proposal_id /\ L.votes[i].user_id = user_id}

\* one account, one vote
VoteWeight_one(L, user_id, property_id) == 1

\* weight_tokens=balance.tokens
VoteWeight(L, user_id, property_id) == L.balances[<<user_id, property_id>>]

cast_vote(L, t, proposal_id, user_id, selected_option_index) ==
    IF ~get_proposal(L, proposal_id) THEN HTTPException(L, 404)
    ELSE LET proposal == L.proposals[proposal_id] IN
         IF proposal.status # "active" THEN HTTPException(L, 400)
         ELSE IF proposal.start_at # None /\ t < proposal.start_at THEN HTTPException(L, 400)
         ELSE IF proposal.end_at # None /\ t > proposal.end_at THEN HTTPException(L, 400)
         ELSE IF ~get_user(L, user_id) THEN HTTPException(L, 404)
         ELSE IF ~HoldsTokens(L.balances, user_id, proposal.property_id) THEN HTTPException(L, 403)
         ELSE IF selected_option_index < 0 \/ selected_option_index >= Len(proposal.options_json)
              THEN HTTPException(L, 400)
         ELSE IF Cardinality(VotesOf(L, proposal_id, user_id)) > 1 THEN HTTPException(L, 500)
         ELSE IF VotesOf(L, proposal_id, user_id) # {} THEN HTTPException(L, 400)
         ELSE LET vote == [proposal_id |-> proposal_id, user_id |-> user_id,
                           selected_option_index |-> selected_option_index,
                           weight_tokens |-> VoteWeight(L, user_id, proposal.property_id)]
              IN Result([L EXCEPT !.votes = Append(@, vote)], 201, vote)

\* option_votes[i]: the summed weight of the votes for the 0-based option i
RECURSIVE OptionVotes(_, _, _)
OptionVotes(vs, proposal_id, i) ==
    IF vs = <<>> THEN 0
    ELSE (IF Head(vs).proposal_id = proposal_id /\ Head(vs).selected_option_index = i
          THEN Head(vs).weight_tokens ELSE 0) + OptionVotes(Tail(vs), proposal_id, i)

RECURSIVE TotalVotesCast(_, _)
TotalVotesCast(vs, proposal_id) ==
    IF vs = <<>> THEN 0
    ELSE (IF Head(vs).proposal_id = proposal_id THEN Head(vs).weight_tokens ELSE 0)
         + TotalVotesCast(Tail(vs), proposal_id)

\* max(r["votes"] for r in results)
MaxVotesOf(L, proposal_id) ==
    LET n == Len(L.proposals[proposal_id].options_json)
        i == CHOOSE j \in 0..(n - 1) :
                \A k \in 0..(n - 1) :
                    OptionVotes(L.votes, proposal_id, j) >= OptionVotes(L.votes, proposal_id, k)
    IN OptionVotes(L.votes, proposal_id, i)

\* the winner found without the test max_votes > 0
WinningIndex_unguarded(L, proposal_id) ==
    LET n == Len(L.proposals[proposal_id].options_json)
        max_votes == MaxVotesOf(L, proposal_id)
        hits == {j \in 0..(n - 1) : OptionVotes(L.votes, proposal_id, j) = max_votes}
    IN CHOOSE j \in hits : \A k \in hits : j <= k

\* the winner taken from the end of the results
WinningIndex_last(L, proposal_id) ==
    LET n == Len(L.proposals[proposal_id].options_json)
        max_votes == MaxVotesOf(L, proposal_id)
        hits == {j \in 0..(n - 1) : OptionVotes(L.votes, proposal_id, j) = max_votes}
    IN IF max_votes > 0 THEN CHOOSE j \in hits : \A k \in hits : j >= k ELSE None

\* next(r["option"] for r in results if r["votes"] == max_votes): the 0-based
\* index of the winning option, None when no option has a vote
WinningIndex(L, proposal_id) ==
    LET n == Len(L.proposals[proposal_id].options_json)
        max_votes == MaxVotesOf(L, proposal_id)
        hits == {j \in 0..(n - 1) : OptionVotes(L.votes, proposal_id, j) = max_votes}
    IN IF max_votes > 0 THEN CHOOSE j \in hits : \A k \in hits : j <= k ELSE None

\* ---- Python floats (IEEE 754 binary64).  A positive float is its 53-bit
\* mantissa, held as the leading 27 bits (hi, the first of them 1) and the
\* trailing 26 bits (lo), and the exponent e of the last bit: its value is
\* (hi * 2^26 + lo) * 2^e.  Limb is the digit size the arithmetic works in.
Limb == 2^13
HalfMantissa == 2^26

\* round-half-to-even: a mantissa followed by the bit half and, when below
\* holds, by more that is not zero, goes up if it is past the tie or odd
RoundHalfEven(hi, lo, e, half, below) ==
    IF ~(half = 1 /\ (below \/ lo % 2 = 1)) THEN [hi |-> hi, lo |-> lo, e |-> e]
    ELSE IF lo + 1 < HalfMantissa THEN [hi |-> hi, lo |-> lo + 1, e |-> e]
    ELSE IF hi + 1 < 2 * HalfMantissa THEN [hi |-> hi + 1, lo |-> 0, e |-> e]
    ELSE [hi |-> HalfMantissa, lo |-> 0, e |-> e + 1]

\* the least s with a * 2^s >= b
RECURSIVE ShiftsTo(_, _)
ShiftsTo(a, b) == IF a >= b THEN 0 ELSE 1 + ShiftsTo(2 * a, b)

\* a / b of two positive ints: the float nearest to the quotient, by long
\* division of a * 2^up by b * 2^down, scaled to a quotient in [1, 2)
TrueDiv(a, b) ==
    LET up == ShiftsTo(a, b)
        num == a * 2^up
        down == ShiftsTo(2 * b, num + 1)
        den == b * 2^down
        r0 == num - den
        d1 == (r0 * Limb) \div den
        r1 == (r0 * Limb) % den
        d2 == (r1 * Limb) \div den
        r2 == (r1 * Limb) % den
        d3 == (r2 * Limb) \div den
        r3 == (r2 * Limb) % den
        d4 == (r3 * Limb) \div den
        r4 == (r3 * Limb) % den
    IN RoundHalfEven(HalfMantissa + d1 * Limb + d2, d3 * Limb + d4, down - up - 52,
                     (2 * r4) \div den, (2 * r4) % den # 0)

\* the number of bits of the positive int n
RECURSIVE BitLength(_)
BitLength(n) == IF n = 0 THEN 0 ELSE 1 + BitLength(n \div 2)

\* x * c of a float and an int c in 1..Limb: the float nearest to the product
FloatTimes(x, c) ==
    LET t4 == (x.lo % Limb) * c
        t3 == (x.lo \div Limb) * c + t4 \div Limb
        t2 == (x.hi % Limb) * c + t3 \div Limb
        t1 == ((x.hi \div Limb) % Limb) * c + t2 \div Limb
        t0 == (x.hi \div (Limb * Limb)) * c + t1 \div Limb
        p1 == t1 % Limb
        p2 == t2 % Limb
        p3 == t3 % Limb
        p4 == t4 % Limb
        n == BitLength(t0) - 1
        cut == 2^n
        keep == Limb \div cut
        s1 == (t0 % cut) * keep + p1 \div cut
        s2 == (p1 % cut) * keep + p2 \div cut
        s3 == (p2 % cut) * keep + p3 \div cut
        s4 == (p3 % cut) * keep + p4 \div cut
        dropped == p4 % cut
    IN IF n = 0 THEN [hi |-> HalfMantissa + p1 * Limb + p2, lo |-> p3 * Limb + p4, e |-> x.e]
       ELSE RoundHalfEven((t0 \div cut) * HalfMantissa + s1 * Limb + s2, s3 * Limb + s4,
                          x.e + n, (2 * dropped) \div cut, (2 * dropped) % cut # 0)

\* math.floor of a float below 2^27
FloatFloor(x) == IF x.e + 53 <= 0 THEN 0 ELSE x.hi \div 2^(-26 - x.e)

\* (a / b * 100) >= percent, of ints a >= 0, b > 0 and percent
PercentAtLeast(a, b, percent) ==
    IF a = 0 THEN 0 >= percent ELSE FloatFloor(FloatTimes(TrueDiv(a, b), 100)) >= percent

\* round((votes_for_option / total_votes_cast * 100) if total_votes_cast > 0
\* else 0.0, 2), in hundredths of a percent
Percentage(votes_for_option, total_votes_cast) ==
    IF total_votes_cast > 0
    THEN (2 * votes_for_option * 10000 + total_votes_cast) \div (2 * total_votes_cast)
    ELSE 0

compute_proposal_results(L, proposal_id) ==
    LET proposal == L.proposals[proposal_id]
        total_tokens == L.properties[proposal.property_id].total_tokens
        total_votes_cast == TotalVotesCast(L.votes, proposal_id)
        w == WinningIndex(L, proposal_id)
    IN [total_tokens |-> total_tokens,
        votes_cast |-> total_votes_cast,
        results |-> [i \in DOMAIN proposal.options_json |->
                        [option |-> proposal.options_json[i],
                         votes |-> OptionVotes(L.votes, proposal_id, i - 1),
                         percentage |-> Percentage(OptionVotes(L.votes, proposal_id, i - 1),
                                                   total_votes_cast)]],
        raised |-> IF total_tokens = 0 THEN "ZeroDivisionError" ELSE "",
        quorum_reached |-> /\ total_tokens # 0
                           /\ PercentAtLeast(total_votes_cast, total_tokens,
                                             proposal.min_quorum_percent),
        winning_index |-> w,
        winning_option |-> IF w = None THEN None ELSE proposal.options_json[w + 1],
        status |-> proposal.status]

close_proposal(L, proposal_id) ==
    IF ~get_proposal(L, proposal_id) THEN HTTPException(L, 404)
    ELSE IF L.proposals[proposal_id].status = "closed" THEN HTTPException(L, 400)
    ELSE Result([L EXCEPT !.proposals[proposal_id].status = "closed"], 200, [id |-> proposal_id])

approve_proposal(L, proposal_id) ==
    IF ~get_proposal(L, proposal_id) THEN HTTPException(L, 404)
    ELSE IF L.proposals[proposal_id].status = "approved" THEN HTTPException(L, 400)
    ELSE Result([L EXCEPT !.proposals[proposal_id].status = "approved"], 200, [id |-> proposal_id])

\* the approved rent_decision proposals of a property
ApprovedRentProposals(L, property_id) ==
    {i \in DOMAIN L.proposals :
        /\ L.proposals[i].property_id = property_id
        /\ L.proposals[i].proposal_type = "rent_decision"
        /\ L.proposals[i].status = "approved"}

\* scalar_one_or_none() raises MultipleResultsFound on more than one row
\* (error); monthly_rent is the winning option, a rent in USD, or None
get_property_rent_status(L, property_id) ==
    LET found == ApprovedRentProposals(L, property_id) IN
    IF Cardinality(found) > 1
    THEN [error |-> TRUE, is_rented |-> FALSE, monthly_rent |-> None]
    ELSE IF found = {}
    THEN [error |-> FALSE, is_rented |-> FALSE, monthly_rent |-> None]
    ELSE [error |-> FALSE, is_rented |-> TRUE,
          monthly_rent |-> compute_proposal_results(L, CHOOSE i \in found : TRUE).winning_option]

\* every holder paid the whole rent
MonthlyPayout_whole_rent(monthly_rent, tokens, total_tokens) == Usd(monthly_rent)

\* monthly_payout = monthly_rent * (balance.tokens / total_tokens), in money units
MonthlyPayout(monthly_rent, tokens, total_tokens) ==
    (Usd(monthly_rent) * tokens) \div total_tokens

calculate_user_rent_payout(L, property_id, user_id) ==
    LET none == [status |-> 200, has_tokens |-> FALSE, is_rented |-> FALSE,
                 monthly_rent |-> None, tokens_owned |-> 0, monthly_payout |-> 0]
    IN
    IF ~get_property(L, property_id) THEN [none EXCEPT !.status = 404]
    ELSE IF ~HoldsTokens(L.balances, user_id, property_id) THEN none
    ELSE LET rent_status == get_property_rent_status(L, property_id)
             tokens == L.balances[<<user_id, property_id>>]
         IN IF rent_status.error THEN [none EXCEPT !.status = 500]
            ELSE IF ~rent_status.is_rented \/ rent_status.monthly_rent = None
            THEN [none EXCEPT !.has_tokens = TRUE]
            ELSE [status |-> 200, has_tokens |-> TRUE, is_rented |-> TRUE,
                  monthly_rent |-> rent_status.monthly_rent,
                  tokens_owned |-> tokens,
                  monthly_payout |-> MonthlyPayout(rent_status.monthly_rent, tokens,
                                                   L.properties[property_id].total_tokens)]

\* the existing-claim select finding nothing
ExistingClaims_none(L, user_id, property_id, year, month) == {}

\* the RentClaim rows of (user_id, property_id, year, month)
ExistingClaims(L, user_id, property_id, year, month) ==
    {i \in DOMAIN L.rent_claims :
        /\ L.rent_claims[i].user_id = user_id
        /\ L.rent_claims[i].property_id = property_id
        /\ L.rent_claims[i].claim_period_month = month
        /\ L.rent_claims[i].claim_period_year = year}

\* now.replace(day=1, month=now.month % 12 + 1), the date in the detail
\* "... Next claim available on ..."
NextClaimDate(t) == [year |-> YearOf(t), month |-> (MonthOf(t) % 12) + 1, day |-> 1]

claim_rent(L, t, property_id, user_id) ==
    LET payout_info == calculate_user_rent_payout(L, property_id, user_id)
        existing == ExistingClaims(L, user_id, property_id, YearOf(t), MonthOf(t))
    IN
    IF payout_info.status # 200 THEN HTTPException(L, payout_info.status)
    ELSE IF ~payout_info.has_tokens THEN HTTPException(L, 400)
    ELSE IF ~payout_info.is_rented THEN HTTPException(L, 400)
    ELSE IF payout_info.monthly_payout <= 0 THEN HTTPException(L, 400)
    ELSE IF Cardinality(existing) > 1 THEN HTTPException(L, 500)
    ELSE IF existing # {} THEN Result(L, 400, [detail |-> NextClaimDate(t)])
    ELSE IF ~get_user(L, user_id) THEN HTTPException(L, 404)
    ELSE LET rent_claim == [user_id |-> user_id, property_id |-> property_id,
                            amount_claimed_usd |-> payout_info.monthly_payout,
                            tokens_owned_at_claim |-> payout_info.tokens_owned,
                            monthly_rent_at_claim |-> payout_info.monthly_rent,
                            claim_period_month |-> MonthOf(t),
                            claim_period_year |-> YearOf(t)]
         IN Result([L EXCEPT !.rent_claims = Append(@, rent_claim),
                             !.users[user_id].mock_balance_usd = @ + payout_info.monthly_payout],
                   200, rent_claim)

\* ============================================================ the requests

\* the rows each table may hold in one specification
BoundsAll ==
    [users |-> MaxUsers, properties |-> MaxProps, investments |-> MaxInvestments,
     listings |-> MaxListings, purchases |-> MaxPurchases, proposals |-> MaxProposals,
     votes |-> MaxVotes, rent_claims |-> MaxClaims]
BoundsMarket ==
    [BoundsAll EXCEPT !.users = MaxConcUsers, !.purchases = MaxConcPurchases,
                      !.proposals = 0, !.votes = 0, !.rent_claims = 0]
BoundsRent == [BoundsAll EXCEPT !.listings = 0, !.purchases = 0]
BoundsTrade ==
    [BoundsAll EXCEPT !.users = MaxTradeUsers, !.listings = MaxTradeListings,
                      !.proposals = 0, !.votes = 0, !.rent_claims = 0]
BoundsDao ==
    [BoundsAll EXCEPT !.votes = MaxDaoVotes, !.listings = 0, !.purchases = 0,
                      !.rent_claims = 0]
BoundsListing ==
    [BoundsAll EXCEPT !.listings = MaxConcListings, !.purchases = 0,
                      !.proposals = 0, !.votes = 0, !.rent_claims = 0]

WithinBounds(L, B) == \A tbl \in DOMAIN B : Len(L[tbl]) <= B[tbl]

\* the request bodies and path parameters of each endpoint
RequestsOf(op, B) ==
    LET U == 1..B.users
        Li == 1..B.listings
        Pr == 1..B.proposals
    IN CASE op = "create_user" -> {[op |-> op]}
         [] op = "create_property" -> [op : {op}, price_usd : PriceInputs]
         [] op = "update_property" -> [op : {op}, property_id : PropIds, status : StatusInputs]
         [] op = "invest" -> [op : {op}, user_id : U, property_id : PropIds, tokens : TokenInputs]
         [] op = "create_listing" ->
                [op : {op}, seller_id : U, property_id : PropIds,
                 tokens : TokenInputs, price_per_token_usd : AskInputs]
         [] op = "buy" -> [op : {op}, buyer_id : U, listing_id : Li, tokens : TokenInputs]
         [] op = "cancel_listing" -> [op : {op}, listing_id : Li, user_id : U]
         [] op = "create_proposal" ->
                [op : {op}, property_id : PropIds, created_by_user_id : U,
                 proposal_type : ProposalTypes, options : OptionInputs,
                 min_quorum_percent : QuorumInputs, window : WindowInputs]
         [] op = "cast_vote" ->
                [op : {op}, proposal_id : Pr, user_id : U,
                 selected_option_index : OptionIndexInputs]
         [] op = "close_proposal" -> [op : {op}, proposal_id : Pr]
         [] op = "approve_proposal" -> [op : {op}, proposal_id : Pr]
         [] op = "claim_rent" -> [op : {op}, property_id : PropIds, user_id : U]

\* the router: the service function each endpoint calls
Handle(req, L, t) ==
    CASE req.op = "create_user" -> create_user(L)
      [] req.op = "create_property" -> create_property(L, req.price_usd)
      [] req.op = "update_property" -> update_property(L, req.property_id, req.status)
      [] req.op = "invest" -> invest_in_property(L, req.user_id, req.property_id, req.tokens)
      [] req.op = "create_listing" ->
             create_marketplace_listing(L, req.seller_id, req.property_id, req.tokens,
                                        req.price_per_token_usd)
      [] req.op = "buy" -> purchase_from_marketplace(L, req.buyer_id, req.listing_id, req.tokens)
      [] req.op = "cancel_listing" -> cancel_marketplace_listing(L, req.listing_id, req.user_id)
      [] req.op = "create_proposal" ->
             create_dao_proposal(L, t, req.property_id, req.created_by_user_id,
                                 req.proposal_type, req.options, req.min_quorum_percent,
                                 req.window[1], req.window[2])
      [] req.op = "cast_vote" ->
             cast_vote(L, t, req.proposal_id, req.user_id, req.selected_option_index)
      [] req.op = "close_proposal" -> close_proposal(L, req.proposal_id)
      [] req.op = "approve_proposal" -> approve_proposal(L, req.proposal_id)
      [] req.op = "claim_rent" -> claim_rent(L, t, req.property_id, req.user_id)

SetLedger(L) ==
    /\ users' = L.users
    /\ properties' = L.properties
    /\ balances' = L.balances
    /\ investments' = L.investments
    /\ listings' = L.listings
    /\ purchases' = L.purchases
    /\ proposals' = L.proposals
    /\ votes' = L.votes
    /\ rent_claims' = L.rent_claims

NoSessions == [pending |-> EmptyBag, begun |-> 0]

\* no gateway call in flight, none made
NoChain == [inflight |-> <<>>, log |-> <<>>]

\* one request, served alone: the handler runs on the committed rows and
\* its session commits (a rejected request commits nothing: it is a
\* stuttering step)
Serve(req, B) ==
    /\ \E r \in {Handle(req, Ledger, now)} :
          /\ Ok(r)
          /\ WithinBounds(r.db, B)
          /\ SetLedger(r.db)
    /\ UNCHANGED <<now, sessions, chain>>

\* ================================================== sessions (app/db.py)
\* get_db gives every request its own AsyncSession (expire_on_commit=False,
\* autoflush=False).  A row the session has loaded stays in its identity
\* map: a later select of the same row returns the loaded object unchanged.

\* the tables a handler selects from
ReadTables(op) ==
    CASE op = "update_property" -> {"properties"}
      [] op = "invest" -> {"users", "properties", "balances"}
      [] op = "create_listing" -> {"users", "properties", "balances"}
      [] op = "buy" -> {"listings", "users", "balances"}
      [] op = "cancel_listing" -> {"listings", "balances"}
      [] op = "create_proposal" -> {"properties", "users", "balances"}
      [] op = "cast_vote" -> {"proposals", "users", "balances", "votes"}
      [] op = "close_proposal" -> {"proposals"}
      [] op = "approve_proposal" -> {"proposals"}
      [] op = "claim_rent" ->
             {"properties", "balances", "proposals", "votes", "rent_claims", "users"}
      [] OTHER -> {}

\* the tables a handler selects from before its SAVEPOINT (begin_nested), or
\* at any point when it opens none: the buy_tokens endpoint loads the User
\* before invest_in_property runs, create_marketplace_listing checks the
\* seller's balance before begin_nested, the DAO services open no SAVEPOINT
PreRead(op) ==
    CASE op = "invest" -> {"users"}
      [] op = "buy" -> {}
      [] op = "cancel_listing" -> {}
      [] OTHER -> ReadTables(op)

\* the rows a session holds once its handler has selected them
Loaded(req, L) == [tbl \in DOMAIN L |-> IF tbl \in ReadTables(req.op) THEN L[tbl] ELSE <<>>]

Session(req, L, t) == [req |-> req, t |-> t, loaded |-> Loaded(req, L)]

\* what the handler computes from: its loaded rows for the tables in stale,
\* the committed rows for the others
View(cur, loaded, stale) == [tbl \in DOMAIN cur |-> IF tbl \in stale THEN loaded[tbl] ELSE cur[tbl]]

\* UPDATE ... SET col = value for the columns the handler changed (a column
\* that is NULL in the row the session holds and was not assigned is not set)
MergeRow(cur_row, view_row, new_row) ==
    [f \in DOMAIN cur_row |->
        IF f \in DOMAIN view_row /\ new_row[f] # view_row[f] THEN new_row[f] ELSE cur_row[f]]

\* the flush of a table with an autoincrement key: UPDATEs of the loaded
\* rows, INSERTs of the added ones
FlushRows(cur_rows, view_rows, new_rows) ==
    [i \in DOMAIN cur_rows |->
        IF i \in DOMAIN view_rows
        THEN MergeRow(cur_rows[i], view_rows[i], new_rows[i])
        ELSE cur_rows[i]]
    \o SubSeq(new_rows, Len(view_rows) + 1, Len(new_rows))

\* the flush of user_property_balances
FlushBalances(cur_bal, view_bal, new_bal) ==
    [k \in DOMAIN cur_bal \cup DOMAIN new_bal |->
        IF k \in DOMAIN view_bal
        THEN (IF new_bal[k] # view_bal[k] THEN new_bal[k] ELSE cur_bal[k])
        ELSE IF k \in DOMAIN new_bal THEN new_bal[k] ELSE cur_bal[k]]

\* uix_user_property, uix_proposal_user, uix_rent_claim_user_property_period
\* a constraint that lets an account vote once for each option
VoteKey_per_option(v) == <<v.proposal_id, v.user_id, v.selected_option_index>>

\* UniqueConstraint("proposal_id", "user_id", name="uix_proposal_user")
VoteKey(v) == <<v.proposal_id, v.user_id>>
ClaimKey(c) == <<c.user_id, c.property_id, c.claim_period_year, c.claim_period_month>>
Added(view_rows, new_rows) ==
    {new_rows[i] : i \in (Len(view_rows) + 1)..Len(new_rows)}
\* a schema without the unique constraints
IntegrityError_never(cur, view, new) == FALSE

IntegrityError(cur, view, new) ==
    \/ \E k \in DOMAIN new.balances \ DOMAIN view.balances : k \in DOMAIN cur.balances
    \/ \E v \in Added(view.votes, new.votes) :
          \E i \in DOMAIN cur.votes : VoteKey(cur.votes[i]) = VoteKey(v)
    \/ \E c \in Added(view.rent_claims, new.rent_claims) :
          \E i \in DOMAIN cur.rent_claims : ClaimKey(cur.rent_claims[i]) = ClaimKey(c)

\* commit: the database after the session's statements, or the database
\* as it was when a constraint fails and the transaction is rolled back
Flush(cur, view, new) ==
    IF IntegrityError(cur, view, new) THEN cur
    ELSE [tbl \in DOMAIN cur |->
            IF tbl = "balances"
            THEN FlushBalances(cur.balances, view.balances, new.balances)
            ELSE FlushRows(cur[tbl], view[tbl], new[tbl])]

\* what a session commits: the flush of what its handler computed from
\* view, or nothing when the handler raised
Outcome(view, r) == IF Ok(r) THEN Flush(Ledger, view, r.db) ELSE Ledger

\* the session computes from view, commits and ends
Commit(s, view, B) ==
    /\ \E db \in {Outcome(view, Handle(s.req, view, s.t))} :
          /\ WithinBounds(db, B)
          /\ SetLedger(db)
    /\ sessions' = LET left == sessions.pending (-) SetToBag({s})
                   IN IF left = EmptyBag THEN [pending |-> EmptyBag, begun |-> 0]
                      ELSE [sessions EXCEPT !.pending = left]
    /\ UNCHANGED <<now, chain>>

\* a request arrives while others are in flight and loads its rows; r is
\* what its handler answers on the rows as they are now (a request that is
\* rejected on arrival is answered at once and holds no session)
Begin(req, r) ==
    /\ Ok(r)
    /\ sessions' = [pending |-> sessions.pending (+) SetToBag({Session(req, Ledger, now)}),
                    begun |-> sessions.begun + 1]
    /\ UNCHANGED <<ledgerVars, now, chain>>

\* the session commits on a store that serializes a transaction's own
\* statements (SQLite, the default DATABASE_URL): only the rows it loaded
\* before its SAVEPOINT are stale
CommitSerialized(s, B) ==
    \E view \in {View(Ledger, s.loaded, PreRead(s.req.op))} : Commit(s, view, B)

\* the session commits on a READ COMMITTED store: every row it loaded is
\* as it was when the handler selected it
CommitReadCommitted(s, B) ==
    \E view \in {View(Ledger, s.loaded, ReadTables(s.req.op))} : Commit(s, view, B)

\* the request fails ("database is locked", a dropped connection) and
\* get_db rolls the session back
Rollback ==
    /\ sessions # NoSessions
    /\ \E s \in BagToSet(sessions.pending) :
          sessions' = LET left == sessions.pending (-) SetToBag({s})
                      IN IF left = EmptyBag THEN [pending |-> EmptyBag, begun |-> 0]
                         ELSE [sessions EXCEPT !.pending = left]
    /\ UNCHANGED <<ledgerVars, now, chain>>

\* a month passes
Tick ==
    /\ now < MaxNow
    /\ sessions = NoSessions
    /\ now' = now + 1
    /\ UNCHANGED <<ledgerVars, sessions, chain>>

\* ======================================================= specifications
Init ==
    /\ users = <<>>
    /\ properties = <<>>
    /\ balances = <<>>
    /\ investments = <<>>
    /\ listings = <<>>
    /\ purchases = <<>>
    /\ proposals = <<>>
    /\ votes = <<>>
    /\ rent_claims = <<>>
    /\ now = 0
    /\ sessions = NoSessions
    /\ chain = NoChain

\* the session of a request served alone commits what its handler computed
CommitAlone(r) ==
    /\ Ok(r)
    /\ WithinBounds(r.db, BoundsAll)
    /\ SetLedger(r.db)
    /\ UNCHANGED <<now, sessions, chain>>

CreateUser ==
    /\ sessions = NoSessions
    /\ CommitAlone(create_user(Ledger))

CreateProperty ==
    /\ sessions = NoSessions
    /\ \E price_usd \in PriceInputs : CommitAlone(create_property(Ledger, price_usd))

UpdateProperty ==
    /\ sessions = NoSessions
    /\ \E property_id \in PropIds, status \in StatusInputs :
          CommitAlone(update_property(Ledger, property_id, status))

Invest ==
    /\ sessions = NoSessions
    /\ \E user_id \in 1..MaxUsers, property_id \in PropIds, tokens \in TokenInputs :
          CommitAlone(invest_in_property(Ledger, user_id, property_id, tokens))

CreateListing ==
    /\ sessions = NoSessions
    /\ \E seller_id \in 1..MaxUsers, property_id \in PropIds, tokens \in TokenInputs,
          price_per_token_usd \in AskInputs :
          CommitAlone(create_marketplace_listing(Ledger, seller_id, property_id, tokens,
                                                 price_per_token_usd))

Buy ==
    /\ sessions = NoSessions
    /\ \E buyer_id \in 1..MaxUsers, listing_id \in 1..MaxListings, tokens \in TokenInputs :
          CommitAlone(purchase_from_marketplace(Ledger, buyer_id, listing_id, tokens))

CancelListing ==
    /\ sessions = NoSessions
    /\ \E listing_id \in 1..MaxListings, user_id \in 1..MaxUsers :
          CommitAlone(cancel_marketplace_listing(Ledger, listing_id, user_id))

CreateProposal ==
    /\ sessions = NoSessions
    /\ \E property_id \in PropIds, created_by_user_id \in 1..MaxUsers,
          proposal_type \in ProposalTypes, options \in OptionInputs,
          min_quorum_percent \in QuorumInputs, window \in WindowInputs :
          CommitAlone(create_dao_proposal(Ledger, now, property_id, created_by_user_id,
                                          proposal_type, options, min_quorum_percent,
                                          window[1], window[2]))

CastVote ==
    /\ sessions = NoSessions
    /\ \E proposal_id \in 1..MaxProposals, user_id \in 1..MaxUsers,
          selected_option_index \in OptionIndexInputs :
          CommitAlone(cast_vote(Ledger, now, proposal_id, user_id, selected_option_index))

CloseProposal ==
    /\ sessions = NoSessions
    /\ \E proposal_id \in 1..MaxProposals : CommitAlone(close_proposal(Ledger, proposal_id))

ApproveProposal ==
    /\ sessions = NoSessions
    /\ \E proposal_id \in 1..MaxProposals : CommitAlone(approve_proposal(Ledger, proposal_id))

ClaimRent ==
    /\ sessions = NoSessions
    /\ \E property_id \in PropIds, user_id \in 1..MaxUsers :
          CommitAlone(claim_rent(Ledger, now, property_id, user_id))

Next ==
    \/ CreateUser
    \/ CreateProperty
    \/ UpdateProperty
    \/ Invest
    \/ CreateListing
    \/ Buy
    \/ CancelListing
    \/ CreateProposal
    \/ CastVote
    \/ CloseProposal
    \/ ApproveProposal
    \/ ClaimRent
    \/ Tick

\* every operation, one request at a time
Spec == Init /\ [][Next]_vars

\* ---- the marketplace with requests in flight at once
MarketOps == {"create_user", "create_property", "invest",
              "create_listing", "buy", "cancel_listing"}

\* a request served alone
ServeMarket ==
    /\ sessions = NoSessions
    /\ \E op \in MarketOps : \E req \in RequestsOf(op, BoundsMarket) : Serve(req, BoundsMarket)

BeginInvest ==
    /\ sessions.begun < MaxSessions
    /\ \E user_id \in 1..MaxConcUsers, property_id \in PropIds, tokens \in TokenInputs :
           Begin([op |-> "invest", user_id |-> user_id, property_id |-> property_id,
                  tokens |-> tokens],
                 invest_in_property(Ledger, user_id, property_id, tokens))

BeginCreateListing ==
    /\ sessions.begun < MaxSessions
    /\ \E seller_id \in 1..MaxConcUsers, property_id \in PropIds, tokens \in TokenInputs,
          price_per_token_usd \in AskInputs :
           Begin([op |-> "create_listing", seller_id |-> seller_id, property_id |-> property_id,
                  tokens |-> tokens, price_per_token_usd |-> price_per_token_usd],
                 create_marketplace_listing(Ledger, seller_id, property_id, tokens,
                                            price_per_token_usd))

BeginBuy ==
    /\ sessions.begun < MaxSessions
    /\ \E buyer_id \in 1..MaxConcUsers, listing_id \in 1..MaxConcListings,
          tokens \in TokenInputs :
           Begin([op |-> "buy", buyer_id |-> buyer_id, listing_id |-> listing_id,
                  tokens |-> tokens],
                 purchase_from_marketplace(Ledger, buyer_id, listing_id, tokens))

BeginCancelListing ==
    /\ sessions.begun < MaxSessions
    /\ \E listing_id \in 1..MaxConcListings, user_id \in 1..MaxConcUsers :
           Begin([op |-> "cancel_listing", listing_id |-> listing_id, user_id |-> user_id],
                 cancel_marketplace_listing(Ledger, listing_id, user_id))

CommitSerializedMarket ==
    /\ sessions # NoSessions
    /\ \E s \in BagToSet(sessions.pending) : CommitSerialized(s, BoundsMarket)

CommitReadCommittedMarket ==
    /\ sessions # NoSessions
    /\ \E s \in BagToSet(sessions.pending) : CommitReadCommitted(s, BoundsMarket)

NextConc ==
    \/ ServeMarket
    \/ BeginInvest
    \/ BeginCreateListing
    \/ BeginBuy
    \/ BeginCancelListing
    \/ CommitSerializedMarket
    \/ CommitReadCommittedMarket
    \/ Rollback

SpecConc == Init /\ [][NextConc]_vars

\* ---- the marketplace with several listings, one request at a time
ServeTrade ==
    /\ sessions = NoSessions
    /\ \E op \in MarketOps : \E req \in RequestsOf(op, BoundsTrade) : Serve(req, BoundsTrade)

NextTrade == ServeTrade

SpecTrade == Init /\ [][NextTrade]_vars

\* ---- listings created and cancelled at once, on the default store
ListingOps == {"create_user", "create_property", "invest", "create_listing", "cancel_listing"}

ServeListing ==
    /\ sessions = NoSessions
    /\ \E op \in ListingOps : \E req \in RequestsOf(op, BoundsListing) : Serve(req, BoundsListing)

CommitSerializedListing ==
    /\ sessions # NoSessions
    /\ \E s \in BagToSet(sessions.pending) : CommitSerialized(s, BoundsListing)

NextConcListing ==
    \/ ServeListing
    \/ BeginInvest
    \/ BeginCreateListing
    \/ BeginCancelListing
    \/ CommitSerializedListing
    \/ Rollback

SpecConcListing == Init /\ [][NextConcListing]_vars

\* ---- governance, one request at a time, with voting windows that open
\* and close while the clock runs
DaoWindowInputs == {<<None, None>>, <<1, 2>>, <<0, 1>>, <<1, 0>>, <<1, None>>}

CommitDao(r) ==
    /\ Ok(r)
    /\ WithinBounds(r.db, BoundsDao)
    /\ SetLedger(r.db)
    /\ UNCHANGED <<now, sessions, chain>>

DaoSetup ==
    /\ sessions = NoSessions
    /\ \E op \in {"create_user", "create_property", "invest"} :
          \E req \in RequestsOf(op, BoundsDao) : Serve(req, BoundsDao)

DaoCreateProposal ==
    /\ sessions = NoSessions
    /\ \E property_id \in PropIds, created_by_user_id \in 1..MaxUsers,
          proposal_type \in ProposalTypes, options \in OptionInputs,
          min_quorum_percent \in QuorumInputs, window \in DaoWindowInputs :
          CommitDao(create_dao_proposal(Ledger, now, property_id, created_by_user_id,
                                        proposal_type, options, min_quorum_percent,
                                        window[1], window[2]))

DaoCastVote ==
    /\ sessions = NoSessions
    /\ \E proposal_id \in 1..MaxProposals, user_id \in 1..MaxUsers,
          selected_option_index \in OptionIndexInputs :
          CommitDao(cast_vote(Ledger, now, proposal_id, user_id, selected_option_index))

DaoCloseProposal ==
    /\ sessions = NoSessions
    /\ \E proposal_id \in 1..MaxProposals : CommitDao(close_proposal(Ledger, proposal_id))

DaoApproveProposal ==
    /\ sessions = NoSessions
    /\ \E proposal_id \in 1..MaxProposals : CommitDao(approve_proposal(Ledger, proposal_id))

DaoTick ==
    /\ now < MaxDaoNow
    /\ sessions = NoSessions
    /\ now' = now + 1
    /\ UNCHANGED <<ledgerVars, sessions, chain>>

NextDao ==
    \/ DaoSetup
    \/ DaoCreateProposal
    \/ DaoCastVote
    \/ DaoCloseProposal
    \/ DaoApproveProposal
    \/ DaoTick

SpecDao == Init /\ [][NextDao]_vars

\* ---- the tally of an offering of TallyTokens tokens held by two accounts
TallyHoldings == {29, 50, 58}
TallyQuorumInputs == {29, 50, 58}
TallyOptionInputs == {<<0, 6>>, <<6, 7, 8>>}

EmptyLedger ==
    [users |-> <<>>, properties |-> <<>>, balances |-> <<>>, investments |-> <<>>,
     listings |-> <<>>, purchases |-> <<>>, proposals |-> <<>>, votes |-> <<>>,
     rent_claims |-> <<>>]

\* the ledger after two accounts were created and bought all tokens of a
\* new offering between them, the first of them `held` tokens
SoldOut(total, held) ==
    LET two == create_user(create_user(EmptyLedger).db).db
        offered == create_property(two, total).db
        first == invest_in_property(offered, 1, 1, held).db
    IN invest_in_property(first, 2, 1, total - held).db

\* the committed database is L
LedgerIs(L) ==
    /\ users = L.users
    /\ properties = L.properties
    /\ balances = L.balances
    /\ investments = L.investments
    /\ listings = L.listings
    /\ purchases = L.purchases
    /\ proposals = L.proposals
    /\ votes = L.votes
    /\ rent_claims = L.rent_claims

InitTally ==
    /\ \E held \in TallyHoldings : LedgerIs(SoldOut(TallyTokens, held))
    /\ now = 0
    /\ sessions = NoSessions
    /\ chain = NoChain

TallyCreateProposal ==
    /\ sessions = NoSessions
    /\ \E created_by_user_id \in 1..MaxUsers, options \in TallyOptionInputs,
          min_quorum_percent \in TallyQuorumInputs :
          CommitDao(create_dao_proposal(Ledger, now, 1, created_by_user_id, "general",
                                        options, min_quorum_percent, None, None))

NextTally ==
    \/ TallyCreateProposal
    \/ DaoCastVote
    \/ DaoCloseProposal

SpecTally == InitTally /\ [][NextTally]_vars

\* ---- governance and rent with requests in flight at once
RentOps == {"create_user", "create_property", "invest", "create_proposal",
            "cast_vote", "close_proposal", "approve_proposal", "claim_rent"}

ServeRent ==
    /\ sessions = NoSessions
    /\ \E op \in RentOps : \E req \in RequestsOf(op, BoundsRent) : Serve(req, BoundsRent)

BeginCastVote ==
    /\ sessions.begun < MaxSessions
    /\ \E proposal_id \in 1..MaxProposals, user_id \in 1..MaxUsers,
          selected_option_index \in OptionIndexInputs :
           Begin([op |-> "cast_vote", proposal_id |-> proposal_id, user_id |-> user_id,
                  selected_option_index |-> selected_option_index],
                 cast_vote(Ledger, now, proposal_id, user_id, selected_option_index))

BeginCloseProposal ==
    /\ sessions.begun < MaxSessions
    /\ \E proposal_id \in 1..MaxProposals :
           Begin([op |-> "close_proposal", proposal_id |-> proposal_id],
                 close_proposal(Ledger, proposal_id))

BeginApproveProposal ==
    /\ sessions.begun < MaxSessions
    /\ \E proposal_id \in 1..MaxProposals :
           Begin([op |-> "approve_proposal", proposal_id |-> proposal_id],
                 approve_proposal(Ledger, proposal_id))

BeginClaimRent ==
    /\ sessions.begun < MaxSessions
    /\ \E property_id \in PropIds, user_id \in 1..MaxUsers :
           Begin([op |-> "claim_rent", property_id |-> property_id, user_id |-> user_id],
                 claim_rent(Ledger, now, property_id, user_id))

\* the DAO services open no SAVEPOINT: on either store a session commits
\* what it computed from the rows it loaded
CommitRent ==
    /\ sessions # NoSessions
    /\ \E s \in BagToSet(sessions.pending) : CommitSerialized(s, BoundsRent)

NextConcRent ==
    \/ ServeRent
    \/ BeginCastVote
    \/ BeginCloseProposal
    \/ BeginApproveProposal
    \/ BeginClaimRent
    \/ CommitRent
    \/ Rollback
    \/ Tick

SpecConcRent == Init /\ [][NextConcRent]_vars

\* ---- votes cast at once
ServeVote ==
    /\ sessions = NoSessions
    /\ \E op \in {"create_user", "create_property", "invest", "create_proposal", "cast_vote"} :
          \E req \in RequestsOf(op, BoundsDao) : Serve(req, BoundsDao)

CommitVote ==
    /\ sessions # NoSessions
    /\ \E s \in BagToSet(sessions.pending) : CommitSerialized(s, BoundsDao)

NextConcVote ==
    \/ ServeVote
    \/ BeginCastVote
    \/ CommitVote
    \/ Rollback

SpecConcVote == Init /\ [][NextConcVote]_vars

\* ---- an offering with several rent proposals, one request at a time
BoundsRenting == [BoundsRent EXCEPT !.proposals = MaxRentProposals]

ServeRenting ==
    /\ sessions = NoSessions
    /\ \E op \in RentOps : \E req \in RequestsOf(op, BoundsRenting) : Serve(req, BoundsRenting)

NextRenting == ServeRenting

SpecRenting == Init /\ [][NextRenting]_vars

\* ---- wallets (services.py ensure_user_wallet), requests in flight at once
\* A users row has the columns blockchain_address and blockchain_private_key
\* once they are not NULL; create_user leaves both NULL.

\* generate_new_wallet(): a new key pair (the key of address a is written a)
WalletInputs == {[address |-> a, private_key |-> a] : a \in 1..MaxWallets}

\* if user.blockchain_address and user.blockchain_private_key
HasWallet(user) == {"blockchain_address", "blockchain_private_key"} \subseteq DOMAIN user

\* UPDATE users SET blockchain_address = ..., blockchain_private_key = ...
SetWallet(row, wallet) ==
    [f \in DOMAIN row \cup {"blockchain_address", "blockchain_private_key"} |->
        IF f = "blockchain_address" THEN wallet.address
        ELSE IF f = "blockchain_private_key" THEN wallet.private_key
        ELSE row[f]]

\* ensure_user_wallet(db, user) with the committed rows L: user is the object
\* the session holds, wallet what generate_new_wallet returns; the database
\* after its commit
ensure_user_wallet(L, user, user_id, wallet) ==
    IF HasWallet(user) THEN L
    ELSE [L EXCEPT !.users[user_id] = SetWallet(@, wallet)]

\* the addresses in the users table (blockchain_address is unique)
Addresses(L) == {L.users[u].blockchain_address : u \in {v \in DOMAIN L.users : HasWallet(L.users[v])}}

BoundsWallet ==
    [BoundsAll EXCEPT !.listings = 0, !.purchases = 0, !.proposals = 0, !.votes = 0,
                      !.rent_claims = 0]

\* the session s goes on as s2, or ends
Continue(s, s2) ==
    sessions' = [sessions EXCEPT !.pending = (@ (-) SetToBag({s})) (+) SetToBag({s2})]
Finish(s) ==
    sessions' = LET left == sessions.pending (-) SetToBag({s})
                IN IF left = EmptyBag THEN NoSessions ELSE [sessions EXCEPT !.pending = left]

ServeWallet ==
    /\ sessions = NoSessions
    /\ \E req \in RequestsOf("create_property", BoundsWallet) : Serve(req, BoundsWallet)

\* create_user_endpoint up to the commit of create_user: the row is in the
\* table, without a wallet, and the session holds it
WalletCreateUser ==
    /\ sessions.begun < MaxSessions
    /\ \E r \in {create_user(Ledger)} :
          /\ WithinBounds(r.db, BoundsWallet)
          /\ SetLedger(r.db)
          /\ sessions' = [pending |-> sessions.pending (+) SetToBag({
                              [req |-> [op |-> "create_user", user_id |-> Len(r.db.users)],
                               t |-> now,
                               loaded |-> [tbl \in DOMAIN r.db |->
                                              IF tbl = "users" THEN r.db.users ELSE <<>>]]}),
                          begun |-> sessions.begun + 1]
    /\ UNCHANGED <<now, chain>>

\* buy_tokens_endpoint up to its select of the User
WalletBuyTokens ==
    /\ sessions.begun < MaxSessions
    /\ \E user_id \in DOMAIN users, property_id \in PropIds, tokens \in 1..MaxTokens :
          sessions' = [pending |-> sessions.pending (+) SetToBag({
                          [req |-> [op |-> "buy_tokens", user_id |-> user_id,
                                    property_id |-> property_id, tokens |-> tokens],
                           t |-> now,
                           loaded |-> [tbl \in DOMAIN Ledger |->
                                          IF tbl = "users" THEN users ELSE <<>>]]}),
                      begun |-> sessions.begun + 1]
    /\ UNCHANGED <<ledgerVars, now, chain>>

\* ensure_user_wallet in a session that holds its User: the commit of a
\* generated wallet and the refresh of the row, or nothing for a User that
\* has a wallet; create_user_endpoint then answers, buy_tokens_endpoint
\* goes on to invest_in_property
WalletEnsure ==
    /\ \E s \in BagToSet(sessions.pending) :
          /\ s.req.op \in {"create_user", "buy_tokens"}
          /\ \E wallet \in {w \in WalletInputs : w.address \notin Addresses(Ledger)} :
                \E db \in {ensure_user_wallet(Ledger, s.loaded.users[s.req.user_id],
                                               s.req.user_id, wallet)} :
                    /\ SetLedger(db)
                    /\ IF s.req.op = "create_user" THEN Finish(s)
                       ELSE Continue(s, [req |-> [s.req EXCEPT !.op = "invest"],
                                         t |-> s.t,
                                         loaded |-> IF HasWallet(s.loaded.users[s.req.user_id])
                                                    THEN Loaded([op |-> "invest"], View(Ledger, s.loaded, {"users"}))
                                                    ELSE Loaded([op |-> "invest"], db)])
    /\ UNCHANGED <<now, chain>>

\* invest_in_property in the session of buy_tokens_endpoint, and its commit
WalletInvest ==
    /\ \E s \in BagToSet(sessions.pending) :
          /\ s.req.op = "invest"
          /\ CommitSerialized(s, BoundsWallet)

NextWallet ==
    \/ ServeWallet
    \/ WalletCreateUser
    \/ WalletBuyTokens
    \/ WalletEnsure
    \/ WalletInvest
    \/ Rollback

SpecWallet == Init /\ [][NextWallet]_vars

\* ---- votes and the marketplace together, one request at a time
VoteTradeOps == {"create_user", "create_property", "invest", "create_listing", "buy",
                 "cancel_listing", "create_proposal", "cast_vote", "close_proposal"}

BoundsVoteTrade == [BoundsAll EXCEPT !.votes = MaxDaoVotes, !.rent_claims = 0]

ServeVoteTrade ==
    /\ sessions = NoSessions
    /\ \E op \in VoteTradeOps :
          \E req \in RequestsOf(op, BoundsVoteTrade) : Serve(req, BoundsVoteTrade)

NextVoteTrade == ServeVoteTrade

SpecVoteTrade == Init /\ [][NextVoteTrade]_vars

\* ---- the gateway calls that follow a commit (app/blockchain)
\* rows per table and gateway calls in SpecChain
MaxChainCalls == 2

BoundsChain ==
    [BoundsAll EXCEPT !.proposals = 0, !.votes = 0, !.rent_claims = 0]

\* how a transaction sent to the chain ends: a receipt with status 1, a
\* receipt with another status, a ContractLogicError, no receipt within
\* the timeout
GatewayOutcomes == {"receipt", "reverted", "ContractLogicError", "TimeExhausted"}

\* mint_to_user returns the transaction hash or raises BlockchainError:
\* every exception of its try block is re-raised as BlockchainError
mint_to_user(outcome) ==
    IF outcome = "receipt" THEN [tx_hash |-> "0x", raised |-> "none"]
    ELSE [tx_hash |-> "", raised |-> "BlockchainError"]

\* the gateway's transfer: a transaction identifier, a reported chain error,
\* or a timeout
transfer_tokens_custodial(outcome) ==
    IF outcome = "receipt" THEN [tx_hash |-> "0x", raised |-> "none"]
    ELSE IF outcome = "TimeExhausted" THEN [tx_hash |-> "", raised |-> "TimeoutError"]
    ELSE [tx_hash |-> "", raised |-> "BlockchainError"]

\* a mint attempted whatever invest_in_property answered
MintAttempted_unconditional(r, ready) == ready

\* buy_tokens_endpoint reaches the mint when invest_in_property has returned
\* (it raises when it rejects) and the blockchain is enabled, the property
\* has a contract and the user a wallet
MintAttempted(r, ready) == Ok(r) /\ ready

\* purchase_from_marketplace reaches the transfer after db.commit() when
\* the property has a contract and buyer and seller have wallets
TransferAttempted(r, ready) == Ok(r) /\ ready

\* except BlockchainError / except Exception of buy_tokens_endpoint
MintCaught(raised) == raised # "none"

\* except BlockchainError of purchase_from_marketplace
TransferCaught(raised) == raised = "BlockchainError"

\* chain_tx_hash of the investment response
chain_tx_hash(call) == IF call.raised = "none" THEN call.tx_hash ELSE "ERROR"

\* the request between its commit and its gateway call
InFlight(kind, r, row, amount) ==
    [kind |-> kind, row |-> IF Ok(r) THEN row ELSE 0, amount |-> amount]

\* a request that makes no gateway call, served alone
ChainOps == {"create_user", "create_property", "create_listing", "cancel_listing"}

ServeChain ==
    /\ sessions = NoSessions
    /\ \E op \in ChainOps : \E req \in RequestsOf(op, BoundsChain) : Serve(req, BoundsChain)

\* buy_tokens_endpoint up to the mint: invest_in_property has committed or
\* raised
BuyTokensCommit ==
    /\ chain.inflight = <<>>
    /\ Len(chain.log) < MaxChainCalls
    /\ \E user_id \in 1..MaxUsers, property_id \in PropIds, tokens \in TokenInputs,
          ready \in BOOLEAN :
          \E r \in {invest_in_property(Ledger, user_id, property_id, tokens)} :
             /\ Ok(r) \/ MintAttempted(r, ready)
             /\ WithinBounds(r.db, BoundsChain)
             /\ SetLedger(r.db)
             /\ chain' = IF MintAttempted(r, ready)
                         THEN [chain EXCEPT !.inflight =
                                  <<InFlight("mint", r, Len(r.db.investments), tokens)>>]
                         ELSE chain
    /\ UNCHANGED <<now, sessions>>

\* the mint and the response of buy_tokens_endpoint
Mint ==
    /\ chain.inflight # <<>>
    /\ chain.inflight[1].kind = "mint"
    /\ \E outcome \in GatewayOutcomes :
          \E call \in {mint_to_user(outcome)} :
             chain' = [inflight |-> <<>>,
                       log |-> Append(chain.log,
                                  [kind |-> "mint", row |-> chain.inflight[1].row,
                                   amount |-> chain.inflight[1].amount,
                                   raised |-> call.raised,
                                   status |-> IF call.raised = "none" \/ MintCaught(call.raised)
                                              THEN 201 ELSE 500,
                                   chain_tx_hash |-> chain_tx_hash(call)])]
    /\ UNCHANGED <<ledgerVars, now, sessions>>

\* purchase_from_marketplace up to the transfer: its transaction has
\* committed or it has raised
PurchaseCommit ==
    /\ chain.inflight = <<>>
    /\ Len(chain.log) < MaxChainCalls
    /\ \E buyer_id \in 1..MaxUsers, listing_id \in 1..MaxListings, tokens \in TokenInputs,
          ready \in BOOLEAN :
          \E r \in {purchase_from_marketplace(Ledger, buyer_id, listing_id, tokens)} :
             /\ Ok(r) \/ TransferAttempted(r, ready)
             /\ WithinBounds(r.db, BoundsChain)
             /\ SetLedger(r.db)
             /\ chain' = IF TransferAttempted(r, ready)
                         THEN [chain EXCEPT !.inflight =
                                  <<InFlight("transfer", r, Len(r.db.purchases), tokens)>>]
                         ELSE chain
    /\ UNCHANGED <<now, sessions>>

\* the transfer and the response of purchase_from_marketplace
Transfer ==
    /\ chain.inflight # <<>>
    /\ chain.inflight[1].kind = "transfer"
    /\ \E outcome \in GatewayOutcomes :
          \E call \in {transfer_tokens_custodial(outcome)} :
             chain' = [inflight |-> <<>>,
                       log |-> Append(chain.log,
                                  [kind |-> "transfer", row |-> chain.inflight[1].row,
                                   amount |-> chain.inflight[1].amount,
                                   raised |-> call.raised,
                                   status |-> IF call.raised = "none" \/ TransferCaught(call.raised)
                                              THEN 200 ELSE 500,
                                   chain_tx_hash |-> call.tx_hash])]
    /\ UNCHANGED <<ledgerVars, now, sessions>>

NextChain ==
    \/ ServeChain
    \/ BuyTokensCommit
    \/ Mint
    \/ PurchaseCommit
    \/ Transfer

SpecChain == Init /\ [][NextChain]_vars

\* ================================================================ claims

\* ---- sums over the ledger's rows
RECURSIVE InvestedTokens(_, _)
InvestedTokens(rows, property_id) ==
    IF rows = <<>> THEN 0
    ELSE (IF Head(rows).property_id = property_id THEN Head(rows).tokens ELSE 0)
         + InvestedTokens(Tail(rows), property_id)

RECURSIVE InvestedUsd(_, _)
InvestedUsd(rows, user_id) ==
    IF rows = <<>> THEN 0
    ELSE (IF Head(rows).user_id = user_id THEN Head(rows).invested_usd ELSE 0)
         + InvestedUsd(Tail(rows), user_id)

RECURSIVE PurchasedTokens(_, _)
PurchasedTokens(rows, listing_id) ==
    IF rows = <<>> THEN 0
    ELSE (IF Head(rows).listing_id = listing_id THEN Head(rows).tokens_purchased ELSE 0)
         + PurchasedTokens(Tail(rows), listing_id)

RECURSIVE ClaimedTokens(_, _, _, _)
ClaimedTokens(rows, property_id, year, month) ==
    IF rows = <<>> THEN 0
    ELSE (IF /\ Head(rows).property_id = property_id
             /\ Head(rows).claim_period_year = year
             /\ Head(rows).claim_period_month = month
          THEN Head(rows).tokens_owned_at_claim ELSE 0)
         + ClaimedTokens(Tail(rows), property_id, year, month)

RECURSIVE ClaimedUsd(_, _, _, _)
ClaimedUsd(rows, property_id, year, month) ==
    IF rows = <<>> THEN 0
    ELSE (IF /\ Head(rows).property_id = property_id
             /\ Head(rows).claim_period_year = year
             /\ Head(rows).claim_period_month = month
          THEN Head(rows).amount_claimed_usd ELSE 0)
         + ClaimedUsd(Tail(rows), property_id, year, month)

RECURSIVE ClaimedByUser(_, _)
ClaimedByUser(rows, user_id) ==
    IF rows = <<>> THEN 0
    ELSE (IF Head(rows).user_id = user_id THEN Head(rows).amount_claimed_usd ELSE 0)
         + ClaimedByUser(Tail(rows), user_id)

RECURSIVE PositionTokens(_, _, _)
PositionTokens(bal, keys, property_id) ==
    IF keys = {} THEN 0
    ELSE LET k == CHOOSE x \in keys : TRUE IN
         (IF k[2] = property_id THEN bal[k] ELSE 0)
         + PositionTokens(bal, keys \ {k}, property_id)

RECURSIVE EscrowedTokens(_, _)
EscrowedTokens(rows, property_id) ==
    IF rows = <<>> THEN 0
    ELSE (IF Head(rows).property_id = property_id /\ Head(rows).status = "active"
          THEN Head(rows).tokens_remaining ELSE 0)
         + EscrowedTokens(Tail(rows), property_id)

Cash(user_id) == users[user_id].mock_balance_usd
Last(rows) == rows[Len(rows)]

\* ---- C1
\* C1: in every reachable state, whatever operations were served, every
\* offering has 0 <= tokens_sold <= total_tokens.
TokensSoldInRange ==
    \A p \in DOMAIN properties :
        /\ 0 <= properties[p].tokens_sold
        /\ properties[p].tokens_sold <= properties[p].total_tokens

\* an offering sold out by invests, traded on the marketplace and paying rent
TokensSoldInRange_Witness ==
    \E p \in DOMAIN properties :
        /\ properties[p].total_tokens > 0
        /\ properties[p].tokens_sold = properties[p].total_tokens
        /\ Len(investments) = 2
        /\ Len(purchases) > 0
        /\ Len(rent_claims) > 0

\* ---- C2
\* an account's cash goes down only with an Investment row or a
\* MarketplacePurchase row of that account, by the row's cost, which the
\* cash it had covered
DebitOnlyByInvestOrBuy ==
    \A u \in DOMAIN users :
        Cash(u)' < Cash(u) =>
            \/ /\ Len(investments') = Len(investments) + 1
               /\ Last(investments').user_id = u
               /\ Cash(u)' = Cash(u) - Last(investments').invested_usd
            \/ /\ Len(purchases') = Len(purchases) + 1
               /\ Last(purchases').buyer_id = u
               /\ Cash(u)' = Cash(u) - Last(purchases').total_price_usd

CashNonNegative == \A u \in DOMAIN users : Cash(u) >= 0

\* C2: every account's cash balance is >= 0 in every reachable state, and
\* only invest and buy debit cash, each by a cost the balance covered.
CashNeverNegative ==
    /\ []CashNonNegative
    /\ [][DebitOnlyByInvestOrBuy]_vars

\* a buyer who spent the whole balance on a purchase, after invests
CashNeverNegative_Witness ==
    /\ Len(investments) > 0
    /\ Len(purchases) > 0
    /\ Cash(Last(purchases).buyer_id) = 0

\* ---- C3
\* C3: for every offering, the tokens of its Positions plus the tokens
\* escrowed in its active Listings never exceed its tokens_sold.
PositionsWithinSold ==
    \A p \in DOMAIN properties :
        PositionTokens(balances, DOMAIN balances, p) + EscrowedTokens(listings, p)
            <= properties[p].tokens_sold

Traded(user_id) ==
    \E i \in DOMAIN purchases :
        purchases[i].buyer_id = user_id \/ purchases[i].seller_id = user_id

\* C5: under every interleaving of invests, tokens_sold is the sum of the
\* tokens of the committed Investment rows and at most total_tokens, and the
\* cash of an account (one that has not traded) is its initial cash minus
\* the sum of the committed costs, and at least 0.
InvestsAccounted ==
    /\ \A p \in DOMAIN properties :
          /\ properties[p].tokens_sold = InvestedTokens(investments, p)
          /\ properties[p].tokens_sold <= properties[p].total_tokens
    /\ \A u \in DOMAIN users :
          ~Traded(u) =>
              /\ Cash(u) = Usd(INITIAL_USER_BALANCE_USD) - InvestedUsd(investments, u)
              /\ Cash(u) >= 0

\* ---- C6
ClaimedThisMonth(user_id, property_id) ==
    \E i \in DOMAIN rent_claims :
        ClaimKey(rent_claims[i]) = <<user_id, property_id, YearOf(now), MonthOf(now)>>

\* C6: no (account, offering, year, month) has two RentClaim rows, and a
\* claim_rent for a key that has a row is rejected and changes nothing.
ClaimRentOncePerPeriod ==
    /\ \A i, j \in DOMAIN rent_claims :
          i # j => ClaimKey(rent_claims[i]) # ClaimKey(rent_claims[j])
    /\ \A u \in DOMAIN users, p \in DOMAIN properties :
          ClaimedThisMonth(u, p) =>
              /\ ~Ok(claim_rent(Ledger, now, p, u))
              /\ claim_rent(Ledger, now, p, u).db = Ledger

\* an account that has claimed this month's rent and whose payout is still
\* positive: only the existing claim stands between it and a second payout
ClaimRentOncePerPeriod_Witness ==
    \E u \in DOMAIN users, p \in DOMAIN properties :
        /\ ClaimedThisMonth(u, p)
        /\ calculate_user_rent_payout(Ledger, p, u).monthly_payout > 0

\* ---- C7
\* C7: with claim_rent calls in flight at once, no key has two RentClaim
\* rows and every account's cash is its initial cash, minus its invests,
\* plus one payout per RentClaim row.
ConcurrentClaimPaidOnce ==
    /\ \A i, j \in DOMAIN rent_claims :
          i # j => ClaimKey(rent_claims[i]) # ClaimKey(rent_claims[j])
    /\ \A u \in DOMAIN users :
          Cash(u) = Usd(INITIAL_USER_BALANCE_USD) - InvestedUsd(investments, u)
                    + ClaimedByUser(rent_claims, u)

\* the winner's row is committed while the loser, which passed the
\* existing-claim check on the rows it loaded, has yet to commit
ConcurrentClaimPaidOnce_Witness ==
    \E s \in BagToSet(sessions.pending) :
        /\ s.req.op = "claim_rent"
        /\ s.loaded.rent_claims = <<>>
        /\ \E i \in DOMAIN rent_claims :
              ClaimKey(rent_claims[i]) =
                  <<s.req.user_id, s.req.property_id, YearOf(s.t), MonthOf(s.t)>>

\* ---- C8
\* C8: for every offering and period, the RentClaim rows' tokens_owned_at_claim
\* sum to at most total_tokens and their amounts to at most the monthly rent.
RentPaidOncePerToken ==
    \A i \in DOMAIN rent_claims :
        LET c == rent_claims[i] IN
        /\ ClaimedTokens(rent_claims, c.property_id, c.claim_period_year, c.claim_period_month)
               <= properties[c.property_id].total_tokens
        /\ ClaimedUsd(rent_claims, c.property_id, c.claim_period_year, c.claim_period_month)
               <= Usd(c.monthly_rent_at_claim)

\* ---- C9
\* the step appends an Investment row
Invested == Len(investments') = Len(investments) + 1

InvestEffect ==
    LET rec == Last(investments')
        u == rec.user_id
        p == rec.property_id
        n == rec.tokens
        sold == properties[p].tokens_sold + n
        held == IF <<u, p>> \in DOMAIN balances THEN balances[<<u, p>>] ELSE 0
    IN /\ SubSeq(investments', 1, Len(investments)) = investments
       /\ rec.invested_usd = Usd(n)
       /\ users' = [users EXCEPT ![u].mock_balance_usd = @ - Usd(n)]
       /\ properties' = [properties EXCEPT
                           ![p].tokens_sold = sold,
                           ![p].status = IF sold = properties[p].total_tokens
                                         THEN "funded" ELSE "offering"]
       /\ DOMAIN balances' = DOMAIN balances \cup {<<u, p>>}
       /\ \A k \in DOMAIN balances' :
             balances'[k] = IF k = <<u, p>> THEN held + n ELSE balances[k]
       /\ UNCHANGED <<listings, purchases, proposals, votes, rent_claims>>

\* C9: a successful invest debits the account's cash by tokens, adds tokens
\* to tokens_sold and to the account's Position (created if absent), appends
\* one Investment row (account, offering, tokens, cost), makes the status
\* funded exactly when tokens_sold reaches total_tokens, and changes nothing
\* else.
InvestChangesExactly == [][Invested => InvestEffect]_vars

\* one account invested twice: the first invest created its Position, the
\* second added to it and sold the offering out
InvestChangesExactly_Witness ==
    /\ Len(investments) = 2
    /\ investments[1].user_id = investments[2].user_id
    /\ investments[1].tokens = 1
    /\ investments[2].tokens = 1
    /\ \E p \in DOMAIN properties :
          /\ properties[p].status = "funded"
          /\ properties[p].tokens_sold = 2
          /\ balances[<<investments[1].user_id, p>>] = 2

\* ---- C10
\* the reasons an invest is rejected for
InvestRefused(user_id, property_id, tokens) ==
    \/ user_id \notin DOMAIN users
    \/ property_id \notin DOMAIN properties
    \/ properties[property_id].status # "offering"
    \/ tokens > properties[property_id].total_tokens - properties[property_id].tokens_sold
    \/ Cash(user_id) < Usd(tokens)

\* C10: an invest by an unknown account, in an unknown offering, in an
\* offering that is not in status offering, for more tokens than are left or
\* for more than the account's cash is rejected, and a rejected invest
\* leaves the ledger as it was.
RejectedInvestChangesNothing ==
    \A u \in 1..(MaxUsers + 1), p \in 1..(MaxProps + 1), n \in TokenInputs :
        /\ InvestRefused(u, p, n) => ~Ok(invest_in_property(Ledger, u, p, n))
        /\ ~Ok(invest_in_property(Ledger, u, p, n))
               => invest_in_property(Ledger, u, p, n).db = Ledger

\* an account whose cash is lower than the cost of tokens that are on offer
RejectedInvestChangesNothing_Witness ==
    \E u \in DOMAIN users, p \in DOMAIN properties, n \in TokenInputs :
        /\ properties[p].status = "offering"
        /\ n >= 0
        /\ n <= properties[p].total_tokens - properties[p].tokens_sold
        /\ Cash(u) < Usd(n)
        /\ Len(investments) > 0

\* ---- C11
\* C11: every invest with tokens <= 0 is rejected, so no Investment row has
\* tokens <= 0.
InvestRequiresPositiveTokens ==
    /\ \A i \in DOMAIN investments : investments[i].tokens > 0
    /\ \A u \in DOMAIN users, p \in DOMAIN properties, n \in TokenInputs :
          n <= 0 => ~Ok(invest_in_property(Ledger, u, p, n))

\* ---- C12
\* the status of every offering changes only from offering to funded, in a
\* step that brings tokens_sold to total_tokens
StatusOnlyToFunded ==
    \A p \in DOMAIN properties :
        properties'[p].status # properties[p].status =>
            /\ properties[p].status = "offering"
            /\ properties'[p].status = "funded"
            /\ properties[p].tokens_sold < properties[p].total_tokens
            /\ properties'[p].tokens_sold = properties[p].total_tokens

\* C12: an offering's status is offering or funded, it is funded only with
\* tokens_sold = total_tokens, and it changes once, from offering to funded,
\* in the step in which tokens_sold reaches total_tokens.
StatusFundedOnce ==
    /\ [](\A p \in DOMAIN properties :
             /\ properties[p].status \in {"offering", "funded"}
             /\ properties[p].status = "funded"
                    => properties[p].tokens_sold = properties[p].total_tokens)
    /\ [][StatusOnlyToFunded]_vars

\* ---- C13
\* the Investment or MarketplacePurchase row a gateway call is made for
CommittedRow(call) ==
    IF call.kind = "mint"
    THEN /\ call.row \in DOMAIN investments
         /\ investments[call.row].tokens = call.amount
    ELSE /\ call.row \in DOMAIN purchases
         /\ purchases[call.row].tokens_purchased = call.amount

GatewayCallsFollowCommit ==
    /\ \A i \in DOMAIN chain.inflight : CommittedRow(chain.inflight[i])
    /\ \A i \in DOMAIN chain.log : CommittedRow(chain.log[i])
    /\ \A i, j \in DOMAIN chain.log :
          i # j => <<chain.log[i].kind, chain.log[i].row>> # <<chain.log[j].kind, chain.log[j].row>>
    /\ \A i \in DOMAIN chain.log, j \in DOMAIN chain.inflight :
          <<chain.log[i].kind, chain.log[i].row>> # <<chain.inflight[j].kind, chain.inflight[j].row>>

GatewayCallKeepsLedger == chain'.log # chain.log => UNCHANGED ledgerVars

\* C13: a mint or transfer is attempted only for an invest or buy whose row
\* is committed, never for a rejected one, at most once per row, and the
\* step that makes the call, whatever its outcome, changes no ledger value.
ChainCallAfterCommitOnly ==
    /\ []GatewayCallsFollowCommit
    /\ [][GatewayCallKeepsLedger]_vars

\* a mint that failed and a transfer that failed, each made for a committed
\* row that stands
ChainCallAfterCommitOnly_Witness ==
    /\ Len(chain.log) = 2
    /\ chain.log[1].kind = "mint"
    /\ chain.log[1].raised # "none"
    /\ chain.log[2].kind = "transfer"
    /\ chain.log[2].raised # "none"
    /\ Len(investments) > 0
    /\ Len(purchases) > 0

\* ---- C14
\* C14: whatever way the gateway call of a committed invest or buy fails,
\* the caller receives the successful ledger result, for invest with an
\* error marker in chain_tx_hash.
ChainFailureNonFatal ==
    \A i \in DOMAIN chain.log :
        /\ chain.log[i].status \in {200, 201}
        /\ (chain.log[i].kind = "mint" /\ chain.log[i].raised # "none")
               => chain.log[i].chain_tx_hash = "ERROR"

\* ---- C15
\* the step appends a MarketplaceListing row
Listed == Len(listings') = Len(listings) + 1

ListingEffect ==
    LET l == Last(listings')
        k == <<l.seller_id, l.property_id>>
    IN /\ SubSeq(listings', 1, Len(listings)) = listings
       /\ l.tokens_listed > 0
       /\ l.price_per_token_usd > 0
       /\ k \in DOMAIN balances
       /\ balances[k] >= l.tokens_listed
       /\ balances' = [balances EXCEPT ![k] = @ - l.tokens_listed]
       /\ l.status = "active"
       /\ l.tokens_remaining = l.tokens_listed
       /\ UNCHANGED <<users, properties, investments, purchases, proposals, votes, rent_claims>>

\* the reasons a create_listing is rejected for
ListingRefused(seller_id, property_id, tokens, price) ==
    \/ tokens <= 0
    \/ price <= 0
    \/ <<seller_id, property_id>> \notin DOMAIN balances
    \/ balances[<<seller_id, property_id>>] < tokens

ListingRejectedChangesNothing ==
    \A u \in 1..(MaxUsers + 1), p \in 1..(MaxProps + 1), n \in TokenInputs, a \in AskInputs :
        LET r == create_marketplace_listing(Ledger, u, p, n, a) IN
        /\ ListingRefused(u, p, n, a) => ~Ok(r)
        /\ ~Ok(r) => r.db = Ledger

\* C15: create_listing succeeds only with tokens > 0, price > 0 and a
\* Position of at least tokens; a success takes exactly tokens from the
\* seller's Position and appends one active Listing with tokens_remaining =
\* tokens_listed = tokens; a rejection changes nothing.
CreateListingEscrows ==
    /\ []ListingRejectedChangesNothing
    /\ [][Listed => ListingEffect]_vars

\* a seller who listed one of two tokens and keeps the other
CreateListingEscrows_Witness ==
    \E i \in DOMAIN listings :
        /\ listings[i].status = "active"
        /\ listings[i].tokens_listed = 1
        /\ balances[<<listings[i].seller_id, listings[i].property_id>>] = 1

\* ---- C16
\* the step cancels a listing no token of which was bought
CancelRestores ==
    \A i \in DOMAIN listings :
        (/\ listings[i].status = "active"
         /\ listings'[i].status = "cancelled"
         /\ listings[i].tokens_remaining = listings[i].tokens_listed)
        => LET k == <<listings[i].seller_id, listings[i].property_id>>
           IN balances' = [balances EXCEPT ![k] = @ + listings[i].tokens_listed]

\* create_listing and then cancel_listing, from this state
ListThenCancel ==
    \A u \in DOMAIN users, p \in DOMAIN properties, n \in TokenInputs, a \in AskInputs :
        LET listed == create_marketplace_listing(Ledger, u, p, n, a) IN
        Ok(listed) =>
            LET cancelled == cancel_marketplace_listing(listed.db, Len(listed.db.listings), u)
            IN /\ Ok(cancelled)
               /\ cancelled.db.balances = balances

\* C16: create_listing followed by the seller's cancel_listing, with no buy
\* in between, leaves the seller's Position at its pre-listing count.
ListCancelRoundTrip ==
    /\ []ListThenCancel
    /\ [][CancelRestores]_vars

\* a seller who holds two tokens again after listing one and cancelling
ListCancelRoundTrip_Witness ==
    \E i \in DOMAIN listings :
        /\ listings[i].status = "cancelled"
        /\ listings[i].tokens_remaining = listings[i].tokens_listed
        /\ listings[i].tokens_listed = 1
        /\ balances[<<listings[i].seller_id, listings[i].property_id>>] = 2

\* ---- C17
RECURSIVE TotalCash(_)
TotalCash(rows) ==
    IF rows = <<>> THEN 0 ELSE Head(rows).mock_balance_usd + TotalCash(Tail(rows))

\* the step appends a MarketplacePurchase row
Bought == Len(purchases') = Len(purchases) + 1

BuyEffect ==
    LET rec == Last(purchases')
        l == listings[rec.listing_id]
        total == rec.tokens_purchased * l.price_per_token_usd
        fee == rec.platform_fee_usd
    IN /\ SubSeq(purchases', 1, Len(purchases)) = purchases
       /\ rec.seller_id = l.seller_id
       /\ rec.total_price_usd = total
       /\ 1000 * fee = PLATFORM_FEE_PERCENT_X10 * total
       /\ rec.total_price_usd = fee + rec.seller_received_usd
       /\ users' = [users EXCEPT ![rec.buyer_id].mock_balance_usd = @ - total,
                                 ![rec.seller_id].mock_balance_usd = @ + (total - fee)]
       /\ TotalCash(users') = TotalCash(users) - fee

BuyRefused(buyer_id, listing_id, tokens) ==
    \/ tokens <= 0
    \/ listing_id \notin DOMAIN listings
    \/ buyer_id \notin DOMAIN users
    \/ listings[listing_id].status # "active"
    \/ tokens > listings[listing_id].tokens_remaining
    \/ buyer_id = listings[listing_id].seller_id
    \/ Cash(buyer_id) < tokens * listings[listing_id].price_per_token_usd

\* C18: a buy of a listing that is missing or not active, of tokens <= 0 or
\* more than remain, by the seller, by an unknown buyer or for more than the
\* buyer's cash is rejected, and a rejected buy leaves the ledger as it was.
RejectedBuyChangesNothing ==
    \A u \in 1..(MaxUsers + 1), l \in 1..(MaxListings + 1), n \in TokenInputs :
        LET r == purchase_from_marketplace(Ledger, u, l, n) IN
        /\ BuyRefused(u, l, n) => ~Ok(r)
        /\ ~Ok(r) => r.db = Ledger

\* an active listing whose seller, and a buyer who has too little cash for
\* it, both ask to buy
RejectedBuyChangesNothing_Witness ==
    \E l \in DOMAIN listings, u \in DOMAIN users :
        /\ listings[l].status = "active"
        /\ u # listings[l].seller_id
        /\ Cash(u) < listings[l].tokens_remaining * listings[l].price_per_token_usd

\* ---- C19
\* a listing's status changes only from active: to completed in the buy
\* that takes its last tokens, to cancelled otherwise; a listing that is not
\* active does not change
ListingLifecycle ==
    \A i \in DOMAIN listings :
        /\ listings[i].status # "active" => listings'[i] = listings[i]
        /\ listings'[i].status # listings[i].status =>
              \/ /\ listings'[i].status = "completed"
                 /\ listings'[i].tokens_remaining = 0
                 /\ Len(purchases') = Len(purchases) + 1
                 /\ Last(purchases').listing_id = i
              \/ /\ listings'[i].status = "cancelled"
                 /\ listings'[i].tokens_remaining = listings[i].tokens_remaining
                 /\ purchases' = purchases

\* every buy and every cancel_listing of a listing that is not active is
\* rejected
TerminalListingRefuses ==
    \A i \in DOMAIN listings :
        listings[i].status # "active" =>
            /\ listings[i].status \in {"completed", "cancelled"}
            /\ \A u \in 1..(MaxUsers + 1) :
                  /\ ~Ok(cancel_marketplace_listing(Ledger, i, u))
                  /\ \A n \in TokenInputs : ~Ok(purchase_from_marketplace(Ledger, u, i, n))

Cancelled(i) ==
    /\ listings[i].status = "active"
    /\ listings'[i].status = "cancelled"

\* what a cancel of listing i does to the ledger
CancelEffect(i) ==
    LET l == listings[i]
        k == <<l.seller_id, l.property_id>>
    IN /\ listings' = [listings EXCEPT ![i].status = "cancelled"]
       /\ balances' = [balances EXCEPT ![k] = @ + l.tokens_remaining]
       /\ balances'[k] = balances[k] + l.tokens_listed - PurchasedTokens(purchases, i)
       /\ UNCHANGED <<users, properties, investments, purchases, proposals, votes,
                      rent_claims>>

\* cancel_listing answers success to the seller of an active listing only,
\* and a rejected cancel leaves the ledger as it was
CancelOnlyBySeller ==
    \A u \in 1..(MaxUsers + 1), l \in 1..(MaxListings + 1) :
        LET r == cancel_marketplace_listing(Ledger, l, u) IN
        /\ Ok(r) <=> (/\ l \in DOMAIN listings
                      /\ listings[l].seller_id = u
                      /\ listings[l].status = "active")
        /\ ~Ok(r) => r.db = Ledger

\* C21: cancel_listing succeeds only for the seller of an active listing; it
\* marks the listing cancelled and adds the listing's tokens_remaining, not
\* its tokens_listed, to the seller's Position, so that after k tokens were
\* bought the seller gets the listed tokens back less k; a cancel by any
\* other account is rejected and changes nothing.
CancelReturnsRemaining ==
    /\ []CancelOnlyBySeller
    /\ [][\A i \in DOMAIN listings : Cancelled(i) => CancelEffect(i)]_vars

\* a listing of two tokens cancelled after one of them was bought: the seller
\* holds one token again
CancelReturnsRemaining_Witness ==
    \E i \in DOMAIN listings :
        /\ listings[i].status = "cancelled"
        /\ listings[i].tokens_listed = 2
        /\ listings[i].tokens_remaining = 1
        /\ PurchasedTokens(purchases, i) = 1
        /\ balances[<<listings[i].seller_id, listings[i].property_id>>] = 1

\* ---- C22
\* what a buy leaves alone
BuyFrame ==
    LET rec == Last(purchases')
        l == listings[rec.listing_id]
        k == <<rec.buyer_id, l.property_id>>
    IN /\ DOMAIN users' = DOMAIN users
       /\ \A u \in DOMAIN users \ {rec.buyer_id, l.seller_id} : users'[u] = users[u]
       /\ DOMAIN listings' = DOMAIN listings
       /\ \A j \in DOMAIN listings \ {rec.listing_id} : listings'[j] = listings[j]
       /\ DOMAIN balances' = DOMAIN balances \cup {k}
       /\ \A key \in DOMAIN balances \ {k} : balances'[key] = balances[key]
       /\ k # <<l.seller_id, l.property_id>>
       /\ UNCHANGED <<properties, investments, proposals, votes, rent_claims>>

\* C22: a successful buy changes only the buyer's cash, the seller's cash,
\* the buyer's Position in the listing's offering and the targeted Listing;
\* every other Listing, every other Position (the seller's own included),
\* every other account's cash and every offering's tokens_sold stay as they
\* were.
BuyChangesOnlyItsRows ==
    [][Bought => BuyFrame]_vars

\* a buy from one of two listings, made while the other listing was active,
\* its seller held a token and a third account stood by
BuyChangesOnlyItsRows_Witness ==
    \E i \in DOMAIN purchases :
        LET rec == purchases[i] IN
        /\ Len(listings) = 2
        /\ Len(users) = 3
        /\ \E j \in DOMAIN listings \ {rec.listing_id} : listings[j].status = "active"
        /\ balances[<<rec.seller_id, rec.property_id>>] > 0

\* ---- C23
\* the tokens an account has bought of an offering
RECURSIVE InvestedBy(_, _, _)
InvestedBy(rows, user_id, property_id) ==
    IF rows = <<>> THEN 0
    ELSE (IF Head(rows).user_id = user_id /\ Head(rows).property_id = property_id
          THEN Head(rows).tokens ELSE 0)
         + InvestedBy(Tail(rows), user_id, property_id)

\* the tokens an account has in escrow in its active listings of an offering
RECURSIVE EscrowedBy(_, _, _)
EscrowedBy(rows, seller_id, property_id) ==
    IF rows = <<>> THEN 0
    ELSE (IF /\ Head(rows).seller_id = seller_id
             /\ Head(rows).property_id = property_id
             /\ Head(rows).status = "active"
          THEN Head(rows).tokens_remaining ELSE 0)
         + EscrowedBy(Tail(rows), seller_id, property_id)

\* C23: every Position is >= 0 in every reachable state, also when one
\* seller's create_listing calls overlap: with no token bought yet, a
\* seller's Position and the tokens of its active listings together are at
\* most the tokens the seller invested in, so that of two overlapping calls
\* for more than the Position holds at most one succeeds.
EscrowWithinHoldings ==
    \A k \in DOMAIN balances :
        /\ balances[k] >= 0
        /\ balances[k] + EscrowedBy(listings, k[1], k[2])
               <= InvestedBy(investments, k[1], k[2])

\* ---- C24
\* create_proposal answers success only when the offering exists, the
\* creator holds tokens of it, two options or more are given and every token
\* of the offering is sold
ProposalRequiresFunded ==
    \A p \in 1..(MaxProps + 1), u \in 1..(MaxUsers + 1), o \in OptionInputs,
       w \in DaoWindowInputs :
        LET r == create_dao_proposal(Ledger, now, p, u, "general", o, 10, w[1], w[2]) IN
        /\ Ok(r) => /\ p \in DOMAIN properties
                    /\ <<u, p>> \in DOMAIN balances
                    /\ balances[<<u, p>>] > 0
                    /\ Len(o) >= 2
                    /\ properties[p].tokens_sold = properties[p].total_tokens
        /\ ~Ok(r) => r.db = Ledger

\* C24: create_proposal succeeds only if the offering exists, the creator
\* holds more than 0 tokens of it, there are at least 2 options and the
\* offering is fully funded; hence every Proposal that exists belongs to an
\* offering with tokens_sold = total_tokens.
ProposalsOnFundedOfferings ==
    /\ ProposalRequiresFunded
    /\ \A i \in DOMAIN proposals :
           LET property_obj == properties[proposals[i].property_id]
           IN property_obj.tokens_sold = property_obj.total_tokens

\* a proposal on an offering of two tokens, both sold, next to an account
\* that holds none of them
ProposalsOnFundedOfferings_Witness ==
    /\ \E i \in DOMAIN proposals :
           /\ properties[proposals[i].property_id].total_tokens = 2
           /\ balances[<<proposals[i].created_by_user_id, proposals[i].property_id>>] = 2
    /\ \E u \in DOMAIN users : \A p \in DOMAIN properties : <<u, p>> \notin DOMAIN balances

\* ---- C25
\* the step appends a DaoProposal row
Proposed == Len(proposals') = Len(proposals) + 1

\* the status the new row has, by the clock of the step and its window
ProposedStatus ==
    LET proposal == Last(proposals') IN
    IF proposal.start_at = None /\ proposal.end_at = None THEN proposal.status = "active"
    ELSE (proposal.start_at # None /\ proposal.end_at # None) =>
            /\ proposal.start_at < proposal.end_at
            /\ now < proposal.start_at => proposal.status = "draft"
            /\ (proposal.start_at <= now /\ now < proposal.end_at)
                  => proposal.status = "active"
            /\ now >= proposal.end_at => proposal.status = "closed"

\* a window that does not start before it ends is refused
WindowMustBeOrdered ==
    \A p \in DOMAIN properties, u \in DOMAIN users, w \in DaoWindowInputs :
        (w[1] # None /\ w[2] # None /\ ~(w[1] < w[2]))
        => LET r == create_dao_proposal(Ledger, now, p, u, "general", <<0, 6>>, 10, w[1], w[2])
           IN ~Ok(r) /\ r.db = Ledger

\* C25: a new proposal is active when no voting window is given; with both
\* start_at and end_at it is rejected unless start_at < end_at, and is
\* otherwise draft if now < start_at, active if start_at <= now < end_at and
\* closed if now >= end_at.
InitialStatusFollowsWindow ==
    /\ []WindowMustBeOrdered
    /\ [][Proposed => ProposedStatus]_vars

\* a proposal waiting for its window to open
InitialStatusFollowsWindow_Witness ==
    \E i \in DOMAIN proposals :
        /\ proposals[i].status = "draft"
        /\ proposals[i].start_at # None
        /\ proposals[i].end_at # None
        /\ now < proposals[i].start_at

\* ---- C26
\* cast_vote answers success only for an active proposal, inside its voting
\* window, to a holder and for an option of the proposal; a rejected
\* cast_vote leaves the ledger as it was
VoteAccepted(p, u, idx) ==
    /\ p \in DOMAIN proposals
    /\ proposals[p].status = "active"
    /\ proposals[p].start_at # None => proposals[p].start_at <= now
    /\ proposals[p].end_at # None => now <= proposals[p].end_at
    /\ <<u, proposals[p].property_id>> \in DOMAIN balances
    /\ balances[<<u, proposals[p].property_id>>] > 0
    /\ 0 <= idx
    /\ idx < Len(proposals[p].options_json)

VoteOnlyWhenAllowed ==
    \A p \in 1..(MaxProposals + 1), u \in 1..(MaxUsers + 1), idx \in -1..2 :
        LET r == cast_vote(Ledger, now, p, u, idx) IN
        /\ Ok(r) => VoteAccepted(p, u, idx)
        /\ ~Ok(r) => r.db = Ledger

\* every recorded vote weighs a token or more and names an option
VotesWellFormed ==
    \A i \in DOMAIN votes :
        /\ votes[i].weight_tokens >= 1
        /\ 0 <= votes[i].selected_option_index
        /\ votes[i].selected_option_index < Len(proposals[votes[i].proposal_id].options_json)

\* the votes change by one vote recorded at the end, allowed in the state
\* it was cast in
VoteRecorded ==
    /\ Len(votes') = Len(votes) + 1
    /\ SubSeq(votes', 1, Len(votes)) = votes
    /\ LET vote == Last(votes')
       IN VoteAccepted(vote.proposal_id, vote.user_id, vote.selected_option_index)

\* C26: a Vote is recorded only by a cast_vote made while the proposal is
\* active, the time is within [start_at, end_at] where these are set, the
\* voter's Position is > 0 and the option index is valid; every recorded
\* Vote has weight >= 1 and an index of one of the proposal's options, and a
\* rejected cast_vote adds no Vote.
VotesOnlyWhenAllowed ==
    /\ [](VoteOnlyWhenAllowed /\ VotesWellFormed)
    /\ [][votes' # votes => VoteRecorded]_vars

\* a vote recorded inside a window that has since ended, on a proposal that
\* is still active and has a holder who did not vote
VotesOnlyWhenAllowed_Witness ==
    \E i \in DOMAIN votes :
        LET proposal == proposals[votes[i].proposal_id] IN
        /\ proposal.status = "active"
        /\ proposal.end_at # None
        /\ now > proposal.end_at
        /\ \E u \in DOMAIN users :
               /\ u # votes[i].user_id
               /\ <<u, proposal.property_id>> \in DOMAIN balances
               /\ balances[<<u, proposal.property_id>>] > 0
               /\ VotesOf(Ledger, votes[i].proposal_id, u) = {}

\* ---- C27
\* no two votes of one account on one proposal
OneVotePerAccount ==
    \A i, j \in DOMAIN votes :
        (/\ votes[i].proposal_id = votes[j].proposal_id
         /\ votes[i].user_id = votes[j].user_id) => i = j

\* an account that has voted on a proposal is refused a second vote on it
SecondVoteRefused ==
    \A i \in DOMAIN votes, idx \in OptionIndexInputs :
        LET r == cast_vote(Ledger, now, votes[i].proposal_id, votes[i].user_id, idx)
        IN ~Ok(r) /\ r.db = Ledger

\* C27: there is at most one Vote per (proposal, account); a second
\* cast_vote by the same account on the same proposal is rejected and leaves
\* the first Vote as it is; of two cast_vote calls of one account on one
\* proposal that overlap at most one is recorded.
OneVotePerProposalAndAccount ==
    /\ [](OneVotePerAccount /\ SecondVoteRefused)
    /\ [][SubSeq(votes', 1, Len(votes)) = votes]_vars

\* an account's vote is recorded while another cast_vote of the same account
\* on the same proposal, begun before it, has yet to commit
OneVotePerProposalAndAccount_Witness ==
    \E i \in DOMAIN votes : \E s \in BagToSet(sessions.pending) :
        /\ s.req.op = "cast_vote"
        /\ s.req.proposal_id = votes[i].proposal_id
        /\ s.req.user_id = votes[i].user_id
        /\ s.req.selected_option_index # votes[i].selected_option_index
        /\ s.req.selected_option_index < Len(proposals[votes[i].proposal_id].options_json)

\* ---- C28
\* the vote the step records weighs the voter's Position of that moment
WeightIsPosition ==
    LET vote == Last(votes')
    IN vote.weight_tokens = balances[<<vote.user_id, proposals[vote.proposal_id].property_id>>]

\* the step creates, buys from or cancels a listing
MarketStep == listings' # listings

\* the result computed for every proposal is the same after the step
ResultsKept ==
    \A p \in DOMAIN proposals :
        compute_proposal_results(Ledger', p) = compute_proposal_results(Ledger, p)

\* C28: a Vote's weight is the voter's Position.tokens when the vote is
\* cast, tokens in escrow not counted, and it never changes afterwards: a
\* later create_listing, buy or cancel_listing leaves the weights and the
\* computed result as they were.
VoteWeightIsSnapshot ==
    /\ [][Len(votes') = Len(votes) + 1 => WeightIsPosition]_vars
    /\ [][SubSeq(votes', 1, Len(votes)) = votes /\ (MarketStep => ResultsKept)]_vars

\* a voter who voted with two tokens and has one of them in escrow since
VoteWeightIsSnapshot_Witness ==
    \E i \in DOMAIN votes : \E l \in DOMAIN listings :
        LET k == <<votes[i].user_id, proposals[votes[i].proposal_id].property_id>> IN
        /\ votes[i].weight_tokens = 2
        /\ balances[k] = 1
        /\ listings[l].seller_id = votes[i].user_id
        /\ listings[l].status = "active"

\* ---- C29
\* the weight of the votes of a proposal for the option of index i
WeightFor(p, i) == OptionVotes(votes, p, i)

\* the result names the option no option outweighs, the first of them
WinnerIsFirstMaximum(p) ==
    LET res == compute_proposal_results(Ledger, p)
        n == Len(proposals[p].options_json)
        w == res.winning_index
    IN /\ res.votes_cast = TotalVotesCast(votes, p)
       /\ w \in 0..(n - 1)
       /\ \A k \in 0..(n - 1) : WeightFor(p, k) <= WeightFor(p, w)
       /\ \A k \in 0..(w - 1) : WeightFor(p, k) < WeightFor(p, w)
       /\ res.winning_option = proposals[p].options_json[w + 1]

\* three accounts hold 300, 50 and 650 of 1000 tokens; the first votes for
\* option 0, the second for option 1
ExampleTally ==
    LET three == create_user(create_user(create_user(EmptyLedger).db).db).db
        offered == create_property(three, 1000).db
        sold == invest_in_property(invest_in_property(invest_in_property(
                    offered, 1, 1, 300).db, 2, 1, 50).db, 3, 1, 650).db
        proposed == create_dao_proposal(sold, 0, 1, 1, "general", <<0, 6>>, 10, None, None).db
    IN cast_vote(cast_vote(proposed, 0, 1, 1, 0).db, 0, 1, 2, 1).db

\* C29: for every proposal with at least one vote, compute_results names as
\* winner the option with the greatest summed weight, the lowest index among
\* options that tie; weights 300 for option 0 and 50 for option 1 give
\* votes_cast 350 and winner option 0.
WinnerHasMostWeight ==
    /\ \A p \in DOMAIN proposals :
           (\E i \in DOMAIN votes : votes[i].proposal_id = p) => WinnerIsFirstMaximum(p)
    /\ Len(ExampleTally.votes) = 2
    /\ compute_proposal_results(ExampleTally, 1).votes_cast = 350
    /\ compute_proposal_results(ExampleTally, 1).winning_index = 0

\* two accounts of 50 tokens each voted for different options, the later
\* vote for the option of lower index
WinnerHasMostWeight_Witness ==
    /\ Len(votes) = 2
    /\ votes[1].weight_tokens = votes[2].weight_tokens
    /\ votes[1].selected_option_index > votes[2].selected_option_index
    /\ compute_proposal_results(Ledger, 1).winning_index = votes[2].selected_option_index

\* ---- C30
\* C30: quorum_reached is true exactly when the summed weight of the votes
\* times 100 is at least min_quorum_percent times the offering's
\* total_tokens.
QuorumIsExact ==
    \A p \in DOMAIN proposals :
        LET res == compute_proposal_results(Ledger, p)
        IN res.quorum_reached <=>
              (TotalVotesCast(votes, p) * 100
                  >= proposals[p].min_quorum_percent * properties[proposals[p].property_id].total_tokens)

\* ---- C31
\* approve_proposal answers success on a closed rent_decision proposal only
ApproveRequiresClosedRent ==
    \A p \in DOMAIN proposals :
        LET r == approve_proposal(Ledger, p) IN
        (proposals[p].status # "closed" \/ proposals[p].proposal_type # "rent_decision")
        => (~Ok(r) /\ r.db = Ledger)

\* C31: approve_proposal succeeds only for a proposal that is closed and of
\* type rent_decision; on a proposal that is draft, active or approved, or
\* of another type, it is rejected and the proposal's status stays as it is.
ApproveOnlyClosedRent ==
    /\ []ApproveRequiresClosedRent
    /\ [][\A p \in DOMAIN proposals :
             (proposals[p].status # "approved" /\ proposals'[p].status = "approved")
             => (proposals[p].status = "closed"
                 /\ proposals[p].proposal_type = "rent_decision")]_vars

\* ---- C32
\* the clock is inside the voting window of proposal p
InsideWindow(p) ==
    /\ proposals[p].start_at # None /\ proposals[p].end_at # None
    /\ proposals[p].start_at <= now /\ now <= proposals[p].end_at

\* C32: a proposal created in draft moves to active on or after its start:
\* once now >= start_at (and now <= end_at) the proposal is active and
\* cast_vote by an eligible token holder is accepted.
DraftOpensAtStart ==
    \A p \in DOMAIN proposals :
        (InsideWindow(p) /\ proposals[p].status \in {"draft", "active"})
        => /\ proposals[p].status = "active"
           /\ \A u \in DOMAIN users :
                  (HoldsTokens(balances, u, proposals[p].property_id)
                   /\ VotesOf(Ledger, p, u) = {})
                  => Ok(cast_vote(Ledger, now, p, u, 0))

\* ---- C33
\* close_proposal leaves an approved proposal approved and its offering rented
CloseKeepsApproved ==
    \A p \in DOMAIN proposals :
        LET after == close_proposal(Ledger, p).db IN
        proposals[p].status = "approved"
        => /\ after.proposals[p].status = "approved"
           /\ ApprovedRentProposals(after, proposals[p].property_id)
                  = ApprovedRentProposals(Ledger, proposals[p].property_id)

\* C33: approved is a final status: once a proposal is approved no operation
\* changes its status again; close_proposal on an approved proposal does not
\* move it to closed, so the offering does not become not-rented.
ApprovedIsFinal ==
    /\ []CloseKeepsApproved
    /\ [][\A p \in DOMAIN proposals :
             proposals[p].status = "approved" => proposals'[p].status = "approved"]_vars

\* ---- C34
\* C34: the monthly rent of an offering is the winning option of its approved
\* rent_decision proposal, and get_property_rent_status answers for any
\* number of approved proposals without an error: with none the offering is
\* not rented, with one the rent is that proposal's winning option, with two
\* or more it is the winning option of one of them (the latest approved).
RentFollowsApproved ==
    \A property_id \in DOMAIN properties :
        LET found == ApprovedRentProposals(Ledger, property_id)
            rent_status == get_property_rent_status(Ledger, property_id)
        IN /\ ~rent_status.error
           /\ found = {} => ~rent_status.is_rented
           /\ found # {} =>
                  \E i \in found :
                      rent_status.monthly_rent
                          = compute_proposal_results(Ledger, i).winning_option

\* ---- C35
\* the payout calculate_user_rent_payout reports is the pro-rata share
PayoutIsShare(L, property_id, user_id) ==
    LET info == calculate_user_rent_payout(L, property_id, user_id)
        rent_status == get_property_rent_status(L, property_id)
    IN IF ~HoldsTokens(L.balances, user_id, property_id)
          \/ ~rent_status.is_rented \/ rent_status.monthly_rent = None
       THEN info.monthly_payout = 0
       ELSE info.monthly_payout * L.properties[property_id].total_tokens
                = Usd(rent_status.monthly_rent) * L.balances[<<user_id, property_id>>]

\* the step appends a RentClaim row
RentClaimed == Len(rent_claims') = Len(rent_claims) + 1

RentClaimEffect ==
    LET rec == Last(rent_claims')
        u == rec.user_id
        p == rec.property_id
    IN /\ rec.amount_claimed_usd = calculate_user_rent_payout(Ledger, p, u).monthly_payout
       /\ rec.amount_claimed_usd * properties[p].total_tokens
              = Usd(rec.monthly_rent_at_claim) * rec.tokens_owned_at_claim
       /\ rec.tokens_owned_at_claim = balances[<<u, p>>]
       /\ rec.monthly_rent_at_claim = get_property_rent_status(Ledger, p).monthly_rent
       /\ users' = [users EXCEPT ![u].mock_balance_usd = @ + rec.amount_claimed_usd]

\* two accounts hold 250 and 750 of 1000 tokens; the approved rent_decision
\* proposal has the first account's vote for a rent of 1000 USD
ExampleRent ==
    LET proposed == create_dao_proposal(SoldOut(1000, 250), 0, 1, 1, "rent_decision",
                                        <<0, 1000>>, 10, None, None).db
        voted == cast_vote(proposed, 0, 1, 1, 1).db
    IN approve_proposal(close_proposal(voted, 1).db, 1).db

WalletAssignedOnce ==
    [][\A u \in DOMAIN users :
          HasWallet(users[u])
          => /\ HasWallet(users'[u])
             /\ users'[u].blockchain_address = users[u].blockchain_address
             /\ users'[u].blockchain_private_key = users[u].blockchain_private_key]_vars

\* ---- C37
\* C37: tokens are conserved: for every offering, the tokens of its Positions
\* plus the tokens_remaining of its active Listings are exactly its
\* tokens_sold, in every reachable state.
TokensConserved ==
    \A p \in DOMAIN properties :
        properties[p].tokens_sold
            = PositionTokens(balances, DOMAIN balances, p) + EscrowedTokens(listings, p)

\* ---- C38
\* C38: for every proposal, the weights of its votes sum to at most the
\* offering's total_tokens, also when tokens change hands on the marketplace
\* while the proposal is active and both the former and the new holder vote.
VoteWeightWithinSupply ==
    \A p \in DOMAIN proposals :
        TotalVotesCast(votes, p) <= properties[proposals[p].property_id].total_tokens

\* ---- C39
\* no DaoVote row is for proposal p
Unvoted(p) == \A i \in DOMAIN votes : votes[i].proposal_id # p

\* C39: for a proposal without votes compute_results reports votes_cast = 0,
\* a percentage of 0 for every option and no winning option (not option 0);
\* an approved rent_decision proposal without votes yields no monthly rent:
\* calculate_payout reports a payout of 0 and claim_rent is rejected.
NoVotesNoRent ==
    \A p \in DOMAIN proposals :
        Unvoted(p) =>
            LET res == compute_proposal_results(Ledger, p)
                property_id == proposals[p].property_id
            IN /\ res.votes_cast = 0
               /\ \A k \in DOMAIN res.results :
                      res.results[k].votes = 0 /\ res.results[k].percentage = 0
               /\ res.winning_index = None
               /\ res.winning_option = None
               /\ (proposals[p].status = "approved"
                   /\ proposals[p].proposal_type = "rent_decision")
                  => \A u \in DOMAIN users :
                         /\ calculate_user_rent_payout(Ledger, property_id, u).monthly_payout = 0
                         /\ ~Ok(claim_rent(Ledger, now, property_id, u))
                         /\ claim_rent(Ledger, now, property_id, u).db = Ledger

\* a rent_decision proposal was approved without a vote while an account
\* holds tokens of the offering
NoVotesNoRent_Witness ==
    \E p \in DOMAIN proposals : \E u \in DOMAIN users :
        /\ Unvoted(p)
        /\ proposals[p].status = "approved"
        /\ proposals[p].proposal_type = "rent_decision"
        /\ HoldsTokens(balances, u, proposals[p].property_id)

\* ---- C40
\* the first day of the calendar month after the month of clock value t
FirstOfNextMonth(t) ==
    IF MonthOf(t) = 12 THEN [year |-> YearOf(t) + 1, month |-> 1, day |-> 1]
    ELSE [year |-> YearOf(t), month |-> MonthOf(t) + 1, day |-> 1]

\* C40: when a second claim_rent in the same month is rejected, the next
\* eligible date it names is the first day of the following calendar month,
\* for every month 1..12; for a rejection in December it is 1 January of the
\* following year.
NextClaimIsNextMonth ==
    \A u \in DOMAIN users, p \in DOMAIN properties :
        (ClaimedThisMonth(u, p) /\ calculate_user_rent_payout(Ledger, p, u).monthly_payout > 0)
        => /\ claim_rent(Ledger, now, p, u).status = 400
           /\ claim_rent(Ledger, now, p, u).body.detail = FirstOfNextMonth(now)
====
